---- MODULE Spec2Model ----
(***************************************************************************)
(* Model of the Binance trade-latency meter:                               *)
(*   - extract_trade_data   (src/src/extract.rs, src/src/main.rs)          *)
(*   - LatencyStats         (src/src/main.rs)                              *)
(*   - the receive loop of main and its display task (src/src/main.rs)     *)
(*   - csv_writer_thread    (src/src/csv_writer.rs)                        *)
(*   - CsvBuffer            (src/src/csv_buffer.rs)                        *)
(*   - clock calibration at startup, which no source file holds and which  *)
(*     is written from the description of the ClockCalibrator              *)
(*                                                                         *)
(* u64 values do not fit TLC's 32-bit integers, so a u64 is a tuple of     *)
(* four base-10^6 limbs, least significant first.  Payloads are sequences  *)
(* of one-character strings (the bytes of the text frame).                 *)
(***************************************************************************)
EXTENDS Integers, Sequences, FiniteSets, TLC

\* ------------------------------------------------------------------------
\* u64 arithmetic on limbs
\* ------------------------------------------------------------------------

LimbBase == 10^6

BigZero == <<0, 0, 0, 0>>

\* u64::MAX = 18 446744 073709 551615
U64Max == <<551615, 73709, 446744, 18>>

\* 2^64
TwoTo64 == <<551616, 73709, 446744, 18>>

BLt(a, b) ==
    \/ a[4] < b[4]
    \/ a[4] = b[4] /\ a[3] < b[3]
    \/ a[4] = b[4] /\ a[3] = b[3] /\ a[2] < b[2]
    \/ a[4] = b[4] /\ a[3] = b[3] /\ a[2] = b[2] /\ a[1] < b[1]

BLe(a, b) == a = b \/ BLt(a, b)

\* a + b without reduction (the top limb absorbs the last carry)
BAdd(a, b) ==
    LET s1 == a[1] + b[1]
        s2 == a[2] + b[2] + (s1 \div LimbBase)
        s3 == a[3] + b[3] + (s2 \div LimbBase)
        s4 == a[4] + b[4] + (s3 \div LimbBase)
    IN  <<s1 % LimbBase, s2 % LimbBase, s3 % LimbBase, s4>>

\* a - b for a >= b
BSub(a, b) ==
    LET d1 == a[1] - b[1]
        w1 == IF d1 < 0 THEN 1 ELSE 0
        d2 == a[2] - b[2] - w1
        w2 == IF d2 < 0 THEN 1 ELSE 0
        d3 == a[3] - b[3] - w2
        w3 == IF d3 < 0 THEN 1 ELSE 0
        d4 == a[4] - b[4] - w3
    IN  <<d1 + w1 * LimbBase, d2 + w2 * LimbBase, d3 + w3 * LimbBase, d4>>

\* AtomicU64::fetch_add wraps around on overflow
WrappingAdd(a, b) ==
    LET s == BAdd(a, b)
    IN  IF BLt(U64Max, s) THEN BSub(s, TwoTo64) ELSE s

\* the u64 `a + b`: the sum modulo 2^64, and whether it passed u64::MAX.
\* Where it did, a build with overflow checks panics and one without wraps.
OverflowingAdd(a, b) ==
    LET s == BAdd(a, b)
    IN  [num |-> IF BLt(U64Max, s) THEN BSub(s, TwoTo64) ELSE s,
         overflow |-> BLt(U64Max, s)]

\* the u64 `a - b`: the difference modulo 2^64, and whether it fell below 0
OverflowingSub(a, b) ==
    IF BLe(b, a) THEN [num |-> BSub(a, b), overflow |-> FALSE]
    ELSE [num |-> BSub(BAdd(a, TwoTo64), b), overflow |-> TRUE]

\* a * m for a small natural m (at most 2048)
BMulSmall(a, m) ==
    LET s1 == a[1] * m
        s2 == a[2] * m + (s1 \div LimbBase)
        s3 == a[3] * m + (s2 \div LimbBase)
        s4 == a[4] * m + (s3 \div LimbBase)
    IN  <<s1 % LimbBase, s2 % LimbBase, s3 % LimbBase, s4>>

\* a modulo 2^64, for a below 11 * 2^64
Mod64(a) ==
    LET k == CHOOSE k \in 0..10 : /\ BLe(BMulSmall(TwoTo64, k), a)
                                  /\ BLt(a, BMulSmall(TwoTo64, k + 1))
    IN  BSub(a, BMulSmall(TwoTo64, k))

\* the u64 `num * 10 + d` for a decimal digit d: the value modulo 2^64, and
\* whether the product or the sum passed u64::MAX
BMul10Add(a, d) ==
    LET s1 == a[1] * 10 + d
        s2 == a[2] * 10 + (s1 \div LimbBase)
        s3 == a[3] * 10 + (s2 \div LimbBase)
        s4 == a[4] * 10 + (s3 \div LimbBase)
        wide == <<s1 % LimbBase, s2 % LimbBase, s3 % LimbBase, s4>>
    IN  [num |-> Mod64(wide), overflow |-> BLt(U64Max, wide)]

\* quotient and remainder of a by a small natural d (at most 2048)
BDivSmall(a, d) ==
    LET t3 == (a[4] % d) * LimbBase + a[3]
        t2 == (t3 % d) * LimbBase + a[2]
        t1 == (t2 % d) * LimbBase + a[1]
    IN  [quot |-> <<t1 \div d, t2 \div d, t3 \div d, a[4] \div d>>,
         rem |-> t1 % d]

\* a natural as limbs
BigOfNat(n) ==
    <<n % LimbBase, (n \div LimbBase) % LimbBase,
      ((n \div LimbBase) \div LimbBase) % LimbBase,
      ((n \div LimbBase) \div LimbBase) \div LimbBase>>

\* limbs as an integer
NatOfBig(a) == a[1] + LimbBase * (a[2] + LimbBase * (a[3] + LimbBase * a[4]))

\* a + k for a signed small k, a + k >= 0
BigAddInt(a, k) == IF k >= 0 THEN BAdd(a, BigOfNat(k)) ELSE BSub(a, BigOfNat(-k))

\* 2^53: every natural up to it is an f64
TwoTo53 == <<740992, 199254, 9007, 0>>

\* the distance between neighbouring f64 values around a, for a up to 2^64
F64Grain(a) ==
    IF BLt(a, TwoTo53) THEN 1
    ELSE CHOOSE g \in {2, 4, 8, 16, 32, 64, 128, 256, 512, 1024, 2048} :
           /\ BLe(BMulSmall(TwoTo53, g \div 2), a)
           /\ BLt(a, BMulSmall(TwoTo53, g)) \/ g = 2048

\* a natural up to 2^64 as the nearest f64 (ties to the even neighbour)
RoundF64(a) ==
    LET g == F64Grain(a)
        d == BDivSmall(a, g)
        up == \/ 2 * d.rem > g
              \/ 2 * d.rem = g /\ d.quot[1] % 2 = 1
    IN  IF g = 1 THEN a
        ELSE BMulSmall(IF up THEN BAdd(d.quot, <<1, 0, 0, 0>>) ELSE d.quot, g)

\* `a as f64 - b as f64`: both casts and the difference are rounded to f64;
\* the result is a whole number of milliseconds.  The runs below keep the
\* two stamps within minutes of each other.
SignedDiff(a, b) ==
    LET fa == RoundF64(a)
        fb == RoundF64(b)
    IN  IF BLe(fb, fa) THEN NatOfBig(RoundF64(BSub(fa, fb)))
        ELSE 0 - NatOfBig(RoundF64(BSub(fb, fa)))

\* ------------------------------------------------------------------------
\* extract_trade_data
\* ------------------------------------------------------------------------

Digit == {"0", "1", "2", "3", "4", "5", "6", "7", "8", "9"}

DigitVal(c) ==
    CASE c = "0" -> 0 [] c = "1" -> 1 [] c = "2" -> 2 [] c = "3" -> 3
      [] c = "4" -> 4 [] c = "5" -> 5 [] c = "6" -> 6 [] c = "7" -> 7
      [] c = "8" -> 8 [] c = "9" -> 9

\* b"\"t\":" and b"\"T\":"
KeyTradeId == <<"\"", "t", "\"", ":">>
KeyTradeTime == <<"\"", "T", "\"", ":">>

\* 1000000000000, the floor a timestamp must exceed
MinTimestamp == <<0, 0, 1, 0>>

\* Option<u64>: None, Some(num), `left` when the `?` on bytes.get left the
\* whole function with None, or `panic` when the digit loop overflowed in a
\* build with overflow checks
NoNumber == [some |-> FALSE, left |-> FALSE, panic |-> FALSE, num |-> BigZero]
LeftEarly == [some |-> FALSE, left |-> TRUE, panic |-> FALSE, num |-> BigZero]
Overflowed == [some |-> FALSE, left |-> FALSE, panic |-> TRUE, num |-> BigZero]
SomeNumber(n) == [some |-> TRUE, left |-> FALSE, panic |-> FALSE, num |-> n]

\* Option<(u64, u64)>, or the panic 'attempt to multiply with overflow' /
\* 'attempt to add with overflow' of a build with overflow checks
NoTrade == [some |-> FALSE, panic |-> FALSE, id |-> BigZero, ts |-> BigZero]
TradePanic == [some |-> FALSE, panic |-> TRUE, id |-> BigZero, ts |-> BigZero]
SomeTrade(id, ts) == [some |-> TRUE, panic |-> FALSE, id |-> id, ts |-> ts]

\* bytes.len().saturating_sub(20): the exclusive end of both scans
ScanEnd(bytes) == IF Len(bytes) > 20 THEN Len(bytes) - 20 ELSE 0

\* bytes.get(i..i+4) is Some: the range lies inside the payload (i from 0)
InRange4(bytes, i) == i + 4 <= Len(bytes)

\* bytes.get(i..i+4)? == key
KeyAt(bytes, i, key) == SubSeq(bytes, i + 1, i + 4) = key

\* while j < bytes.len() && bytes[j] == b' ' { j += 1 }
RECURSIVE SkipSpaces(_, _)
SkipSpaces(bytes, j) ==
    IF j < Len(bytes) /\ bytes[j + 1] = " " THEN SkipSpaces(bytes, j + 1) ELSE j

\* the digit loop `num = num * 10 + (bytes[j] - b'0') as u64`: returns the
\* number read modulo 2^64, the index it stopped at, and whether a step
\* passed u64::MAX (a run of 20 digits or more can).  n is the value of one
\* step, computed before the next step starts.
RECURSIVE ParseDigits(_, _, _, _)
ParseDigits(bytes, j, num, overflow) ==
    IF j < Len(bytes) /\ bytes[j + 1] \in Digit
    THEN CHOOSE r \in {ParseDigits(bytes, j + 1, n.num, overflow \/ n.overflow) :
                           n \in {BMul10Add(num, DigitVal(bytes[j + 1]))}} :
           TRUE
    ELSE [num |-> num, j |-> j, overflow |-> overflow]

\* the number after the 4-byte key found at i; nonempty is `j > start`
NumberAt(bytes, i) ==
    LET start == SkipSpaces(bytes, i + 4)
        r == ParseDigits(bytes, start, BigZero, FALSE)
    IN  [num |-> r.num, nonempty |-> r.j > start, overflow |-> r.overflow]

\* `j > start` alone: a number read as 0 passes
ValidTradeId_ZeroPasses(n) == n.nonempty

\* `j > start && num > 0`
ValidTradeId(n) == n.nonempty /\ BLt(BigZero, n.num)

\* `j > start && num > 1000000000000`
ValidTradeTime(n) == n.nonempty /\ BLt(MinTimestamp, n.num)

\* The `for i in 0..bytes.len().saturating_sub(20)` loops are left at the
\* least i at which the `?` on bytes.get fires, the digit loop after a key
\* panics (overflow_checks: the build checks integer overflow, as a debug
\* build does; a release build wraps), or the break after a key with a valid
\* number is taken; they run to their end when there is no such i.

\* the least member of a set of indices
Least(stops) == CHOOSE i \in stops : \A k \in stops : i <= k

\* the digit loop after the key at i panics
DigitsPanic(bytes, i, overflow_checks) ==
    overflow_checks /\ NumberAt(bytes, i).overflow

\* where the first loop can be left
TradeIdStops(bytes, overflow_checks) ==
    {i \in 0..(ScanEnd(bytes) - 1) :
        \/ ~InRange4(bytes, i)
        \/ /\ KeyAt(bytes, i, KeyTradeId)
           /\ \/ DigitsPanic(bytes, i, overflow_checks)
              \/ ValidTradeId(NumberAt(bytes, i))}

\* first loop: the trade id after "t":
FindTradeId(bytes, overflow_checks) ==
    LET stops == TradeIdStops(bytes, overflow_checks)
    IN  IF stops = {} THEN NoNumber
        ELSE IF ~InRange4(bytes, Least(stops)) THEN LeftEarly
        ELSE IF DigitsPanic(bytes, Least(stops), overflow_checks)
        THEN Overflowed
        ELSE SomeNumber(NumberAt(bytes, Least(stops)).num)

\* where the second loop can be left
TradeTimeStops(bytes, overflow_checks) ==
    {i \in 0..(ScanEnd(bytes) - 1) :
        \/ ~InRange4(bytes, i)
        \/ /\ KeyAt(bytes, i, KeyTradeTime)
           /\ \/ DigitsPanic(bytes, i, overflow_checks)
              \/ ValidTradeTime(NumberAt(bytes, i))}

\* second loop: the timestamp after "T":
FindTradeTime(bytes, overflow_checks) ==
    LET stops == TradeTimeStops(bytes, overflow_checks)
    IN  IF stops = {} THEN NoNumber
        ELSE IF ~InRange4(bytes, Least(stops)) THEN LeftEarly
        ELSE IF DigitsPanic(bytes, Least(stops), overflow_checks)
        THEN Overflowed
        ELSE SomeNumber(NumberAt(bytes, Least(stops)).num)

\* the second loop runs whatever the first one found, unless the function
\* was left or panicked before it
extract_trade_data(bytes, overflow_checks) ==
    LET trade_id == FindTradeId(bytes, overflow_checks)
        trade_time == IF trade_id.left THEN LeftEarly
                      ELSE IF trade_id.panic THEN Overflowed
                      ELSE FindTradeTime(bytes, overflow_checks)
    IN  IF trade_id.panic \/ trade_time.panic THEN TradePanic
        ELSE IF trade_id.some /\ trade_time.some
        THEN SomeTrade(trade_id.num, trade_time.num)
        ELSE NoTrade

\* ------------------------------------------------------------------------
\* payloads
\* ------------------------------------------------------------------------

\* the event of the doc comment of extract_trade_data, cut around its trade id:
\* {"e":"trade","E":1769693418944,"s":"BTCUSDT","t":<id>,"p":"88120.26",
\*  "q":"0.00008","T":1769693418802,"m":false}
TradeHead ==
    <<"{", "\"", "e", "\"", ":", "\"", "t", "r", "a", "d", "e", "\"", ",",
      "\"", "E", "\"", ":", "1", "7", "6", "9", "6", "9", "3", "4", "1", "8",
      "9", "4", "4", ",", "\"", "s", "\"", ":", "\"", "B", "T", "C", "U",
      "S", "D", "T", "\"", ",", "\"", "t", "\"", ":">>

TradeTail ==
    <<",", "\"", "p", "\"", ":", "\"", "8", "8", "1", "2", "0", ".", "2",
      "6", "\"", ",", "\"", "q", "\"", ":", "\"", "0", ".", "0", "0", "0",
      "0", "8", "\"", ",", "\"", "T", "\"", ":", "1", "7", "6", "9", "6",
      "9", "3", "4", "1", "8", "8", "0", "2", ",", "\"", "m", "\"", ":", "f",
      "a", "l", "s", "e", "}">>

\* {"t":5827967018,"T":1769693418802}: the two fields alone
ShortPayload ==
    <<"{", "\"", "t", "\"", ":", "5", "8", "2", "7", "9", "6", "7", "0", "1",
      "8", ",", "\"", "T", "\"", ":", "1", "7", "6", "9", "6", "9", "3", "4",
      "1", "8", "8", "0", "2", "}">>

\* the digits of trade id 5827967018
BigIdDigits ==
    <<"5", "8", "2", "7", "9", "6", "7", "0", "1", "8">>

\* fields a payload is assembled from
FieldIdBig ==
    <<"\"", "t", "\"", ":", "5", "8", "2", "7", "9", "6", "7", "0", "1", "8">>

FieldIdSpaced ==
    <<"\"", "t", "\"", ":", " ", "7">>

FieldIdZero ==
    <<"\"", "t", "\"", ":", "0">>

FieldIdBad ==
    <<"\"", "t", "\"", ":", "x", "7">>

FieldTime ==
    <<"\"", "T", "\"", ":", "1", "7", "6", "9", "6", "9", "3", "4", "1", "8",
      "8", "0", "2">>

FieldTimeLow ==
    <<"\"", "T", "\"", ":", "9", "9", "9">>

FieldTimeBad ==
    <<"\"", "T", "\"", ":", "\"", "1", "7", "6", "9", "6", "9", "3", "4",
      "1", "8", "8", "0", "2", "\"">>

\* a digit run that passes u64::MAX: 18446744073709551617 is 2^64 + 1
FieldIdWraps ==
    <<"\"", "t", "\"", ":", "1", "8", "4", "4", "6", "7", "4", "4", "0",
      "7", "3", "7", "0", "9", "5", "5", "1", "6", "1", "7">>

\* 18446744073709551616 is 2^64
FieldIdWrapsZero ==
    <<"\"", "t", "\"", ":", "1", "8", "4", "4", "6", "7", "4", "4", "0",
      "7", "3", "7", "0", "9", "5", "5", "1", "6", "1", "6">>

\* 18446744075479245034418 is 1000 * 2^64 + 1769693418418
FieldTimeWraps ==
    <<"\"", "T", "\"", ":", "1", "8", "4", "4", "6", "7", "4", "4", "0",
      "7", "5", "4", "7", "9", "2", "4", "5", "0", "3", "4", "4", "1", "8">>

\* the digits of u64::MAX, 18446744073709551615
U64MaxDigits ==
    <<"1", "8", "4", "4", "6", "7", "4", "4", "0", "7", "3", "7", "0", "9",
      "5", "5", "1", "6", "1", "5">>

\* the digits of 2^64
TwoTo64Digits ==
    <<"1", "8", "4", "4", "6", "7", "4", "4", "0", "7", "3", "7", "0", "9",
      "5", "5", "1", "6", "1", "6">>

FieldOther ==
    <<"\"", "s", "\"", ":", "\"", "B", "T", "C", "U", "S", "D", "T", "\"">>

\* what follows the last field
ShortTail ==
    <<"}">>

LongTail ==
    <<",", "\"", "p", "\"", ":", "\"", "8", "8", "1", "2", "0", ".", "2",
      "6", "\"", ",", "\"", "m", "\"", ":", "f", "a", "l", "s", "e", "}">>

TradePayload(id_digits) == TradeHead \o id_digits \o TradeTail

\* {"t": 7,"T":999,"p":"88120.26","m":false}: an event time below the floor
LowTimePayload == <<"{">> \o FieldIdSpaced \o <<",">> \o FieldTimeLow \o LongTail

\* "T":1769693418802 as a u64
EventTime == <<418802, 769693, 1, 0>>

\* 5827967018 as a u64
BigId == <<967018, 5827, 0, 0>>

\* 1769693418418, what the digits of FieldTimeWraps come to modulo 2^64
WrappedTime == <<418418, 769693, 1, 0>>

FieldKinds ==
    {FieldIdBig, FieldIdSpaced, FieldIdZero, FieldIdBad, FieldIdWraps,
     FieldIdWrapsZero, FieldTime, FieldTimeLow, FieldTimeBad, FieldTimeWraps,
     FieldOther}

Tails == {ShortTail, LongTail}

\* the fields joined by commas
RECURSIVE JoinFields(_)
JoinFields(fields) ==
    IF fields = <<>> THEN <<>>
    ELSE IF Len(fields) = 1 THEN fields[1]
    ELSE fields[1] \o <<",">> \o JoinFields(Tail(fields))

RenderPayload(fields, tail) == <<"{">> \o JoinFields(fields) \o tail

\* the longest field list of a generated payload
MaxFields == 3

FieldLists == UNION {[1..n -> FieldKinds] : n \in 1..MaxFields}

\* ------------------------------------------------------------------------
\* state
\* ------------------------------------------------------------------------

VARIABLES
    cfg,               \* CSV_FILE set, MIN_TRADES, STATS_SAMPLES, REALTIME,
                       \* and whether the build checks integer overflow
    stats,             \* the atomics of LatencyStats
    recent_latencies,  \* LatencyStats::recent_latencies, oldest first
    window_lock,       \* holder of the Mutex around recent_latencies, or
                       \* "poisoned" once a holder has panicked
    main,              \* the receive loop of main: position and locals
    stream,            \* items the transport has delivered so far
    csv_writer,        \* lines of the file main writes (header first)
    final_stats,       \* what the closing stats.get() of main returned
    display,           \* the display task: position and locals of get
    chan,              \* mpsc channel of TradeRecord, oldest first
    producer,          \* the sender side of chan
    writer,            \* csv_writer_thread: position, count, buffer, file
    csv_buffer,        \* a CsvBuffer: its Vec, its file, the calls made on it
    callers,           \* the two threads that share a CsvBuffer
    calibration,       \* the clock calibration: its samples and its offset
    obs                \* observations about the run, read by the properties

vars ==
    <<cfg, csv_buffer, callers, calibration, stats, recent_latencies, window_lock, main, stream, csv_writer,
      final_stats, display, chan, producer, writer, obs>>

One == BigOfNat(1)

\* LatencyStats::new
NewStats ==
    [count |-> 0, total_latency |-> BigZero, min |-> U64Max, max |-> BigZero,
     last_trade_id |-> BigZero, gaps_detected |-> BigZero, out_of_order |-> 0]

\* the tuple get returns (latencies in ms; min and max kept in microseconds
\* next to the division by 1000.0 that get applies)
ZeroThroughput == [num |-> 0, den |-> 1]

ZeroReport ==
    [count |-> 0, total_us |-> BigZero, min_us |-> BigZero, max_us |-> BigZero,
     p50 |-> 0, p95 |-> 0, p99 |-> 0, jitter_sq |-> 0, gaps |-> BigZero,
     out_of_order |-> 0, throughput |-> ZeroThroughput]

Header == <<"trade_id", "ts", "recv_ts", "latency_ms", "machine_id">>

MachineId == "m8a.xlarge"

\* format!("{:.2}", latency_ms) of a whole number of milliseconds
TwoDecimals(latency_ms) == [whole |-> latency_ms, cents |-> 0]

\* writeln!(file, "{},{},{},{:.2},{}", trade_id, ts, recv_ts, latency_ms, machine_id)
CsvLine(trade_id, ts, recv_ts, latency_ms, machine_id) ==
    <<trade_id, ts, recv_ts, TwoDecimals(latency_ms), machine_id>>

\* the locals of a call of get that has loaded nothing yet
GetLocals ==
    [count |-> 0, total |-> BigZero, min |-> BigZero, max |-> BigZero,
     sorted |-> <<>>, p50 |-> 0, p95 |-> 0, p99 |-> 0, jitter_sq |-> 0,
     throughput |-> ZeroThroughput, gaps |-> BigZero]

\* `get` holds the locals of the closing call of get while it runs
MainIdle ==
    [pc |-> "recv", text |-> <<>>, recv_ts |-> BigZero, trade |-> NoTrade,
     latency_ms |-> 0, latency_us |-> BigZero, current |-> BigZero,
     last_id |-> BigZero, panic |-> "none", msg |-> "none",
     get |-> GetLocals]

\* main unwinding from the expect or unwrap of a failed step
Panicked(m, step) == [m EXCEPT !.pc = "panicked", !.panic = step]

\* main after its configuration is read and LatencyStats::new has returned
MainStart == [MainIdle EXCEPT !.pc = "open"]

DisplayIdle ==
    [pc |-> "tick", count |-> 0, total |-> BigZero, min |-> BigZero,
     max |-> BigZero, sorted |-> <<>>, p50 |-> 0, p95 |-> 0, p99 |-> 0,
     jitter_sq |-> 0, throughput |-> ZeroThroughput, gaps |-> BigZero,
     shown |-> ZeroReport, ticks |-> 0]

\* a machine_id String: `text` followed by `pad` more characters
ShortLabel == [text |-> MachineId, pad |-> 0]
LongLabel == [text |-> MachineId, pad |-> 399953]

WriterIdle ==
    [pc |-> "off", count |-> 0, buffer |-> <<>>, bytes |-> 0, file |-> <<>>,
     panic |-> "none"]

\* `sent` counts the calls of send, `refused` those that returned Err
ProducerIdle ==
    [sent |-> 0, refused |-> 0, total |-> 0, machine_id |-> ShortLabel,
     alive |-> FALSE]

\* no calibration has run: the offset is zero
CalOff ==
    [pc |-> "off", rounds |-> 0, samples |-> <<>>, offset_us |-> 0,
     degraded |-> FALSE]

\* no CsvBuffer: `calls` lists the calls made so far with what they returned
BufferOff ==
    [state |-> "off", buffer |-> <<>>, file |-> <<>>, calls |-> <<>>,
     buffer_lock |-> "free", file_lock |-> "free"]

\* no write_all has been attempted
NoWrite == [io |-> "none", k |-> 0, cut |-> 0]

CallersOff ==
    [writer |-> [pc |-> "off", done |-> 0, line |-> <<>>],
     flusher |-> [pc |-> "off", done |-> 0, out |-> NoWrite, wrote |-> 0]]

ObsInit ==
    [submitted |-> <<>>, prev_id |-> BigZero, before_id |-> BigZero,
     gaps_before |-> BigZero, ooo_before |-> 0, scenario |-> 0,
     increasing |-> TRUE, consecutive |-> TRUE, skipped |-> BigZero,
     fields |-> <<>>, tail |-> <<>>]

\* ------------------------------------------------------------------------
\* observations (history only; nothing here feeds back into the program)
\* ------------------------------------------------------------------------

\* the ids of the properties "ids submitted as 1, 2, 4, 3" and "ids
\* submitted as 1, 2, 4, 3, 5"
ScenarioIds ==
    <<BigOfNat(1), BigOfNat(2), BigOfNat(4), BigOfNat(3), BigOfNat(5)>>

\* update(trade_id, latency_ms) is being called on the stats st
Observe(o, st, trade_id, latency_ms) ==
    LET first == o.submitted = <<>>
        k == Len(o.submitted) + 1
    IN  [o EXCEPT
           !.submitted = Append(@, latency_ms),
           !.prev_id = trade_id,
           !.before_id = o.prev_id,
           !.gaps_before = st.gaps_detected,
           !.ooo_before = st.out_of_order,
           !.scenario = IF o.scenario = k - 1 /\ k <= Len(ScenarioIds)
                           /\ ScenarioIds[k] = trade_id
                        THEN k ELSE 0 - 1,
           !.increasing = @ /\ (first \/ BLt(o.prev_id, trade_id)),
           !.consecutive = @ /\ (first \/ trade_id = BAdd(o.prev_id, One)),
           !.skipped = IF ~first /\ BLt(BAdd(o.prev_id, One), trade_id)
                       THEN BAdd(@, BSub(BSub(trade_id, o.prev_id), One))
                       ELSE @]

\* ------------------------------------------------------------------------
\* LatencyStats: the pure parts of update and get
\* ------------------------------------------------------------------------

\* (latency_ms * 1000.0) as u64: a float-to-integer cast saturates, so
\* every negative latency becomes 0
ToMicros(latency_ms) ==
    IF latency_ms <= 0 THEN BigZero
    ELSE LET exact == BMulSmall(BigOfNat(latency_ms), 1000)
         IN  IF BLt(U64Max, exact) THEN U64Max
             ELSE IF BLt(U64Max, RoundF64(exact)) THEN U64Max
             ELSE RoundF64(exact)

\* what the validation leaves: the stats, or the panic 'attempt to add with
\* overflow' of `last_id + 1` in a build with overflow checks
Checked(st) == [stats |-> st, panic |-> FALSE]
CheckPanicked(st) == [stats |-> st, panic |-> TRUE]

\* the validation without its `if last_id > 0`
SequenceCheck_NoFirstGuard(st, last_id, trade_id, overflow_checks) ==
    LET next == OverflowingAdd(last_id, One)
        gap == OverflowingSub(OverflowingSub(trade_id, last_id).num, One)
    IN  IF BLt(trade_id, last_id)
        THEN Checked([st EXCEPT !.out_of_order = @ + 1])
        ELSE IF overflow_checks /\ next.overflow THEN CheckPanicked(st)
        ELSE IF BLt(next.num, trade_id)
             THEN IF overflow_checks /\ gap.overflow THEN CheckPanicked(st)
                  ELSE Checked([st EXCEPT !.gaps_detected =
                                    WrappingAdd(@, gap.num)])
             ELSE Checked(st)

\* the order and gap validation against the id loaded from last_trade_id.
\* `last_id + 1` passes u64::MAX when last_id is u64::MAX: with overflow
\* checks the addition panics; without them it wraps to 0, the comparison
\* `trade_id > 0` holds for the only id left (u64::MAX), and the gap
\* `trade_id - last_id - 1` wraps to u64::MAX.
SequenceCheck(st, last_id, trade_id, overflow_checks) ==
    LET next == OverflowingAdd(last_id, One)
        gap == OverflowingSub(OverflowingSub(trade_id, last_id).num, One)
    IN  IF BLt(BigZero, last_id)
        THEN IF BLt(trade_id, last_id)
             THEN Checked([st EXCEPT !.out_of_order = @ + 1])
             ELSE IF overflow_checks /\ next.overflow THEN CheckPanicked(st)
             ELSE IF BLt(next.num, trade_id)
                  THEN IF overflow_checks /\ gap.overflow
                       THEN CheckPanicked(st)
                       ELSE Checked([st EXCEPT !.gaps_detected =
                                         WrappingAdd(@, gap.num)])
                  ELSE Checked(st)
        ELSE Checked(st)

\* latencies.push_back(latency_ms)
PushBack(window, latency_ms) == Append(window, latency_ms)

\* pop_back in place of pop_front
EvictOldest_DropsNewest(window, max_samples) ==
    IF Len(window) > max_samples
    THEN SubSeq(window, 1, Len(window) - 1) ELSE window

\* if latencies.len() > self.max_samples { latencies.pop_front(); }
EvictOldest(window, max_samples) ==
    IF Len(window) > max_samples THEN Tail(window) ELSE window

\* sorted.sort_by(partial_cmp)
Sorted(window) == SortSeq(window, LAMBDA a, b : a < b)

\* (sorted.len() as f64 * 0.50) as usize and its siblings
P50Index(len) == len \div 2
\* the index rounded up instead of cut off
P95Index_RoundsUp(len) == (len * 95 + 99) \div 100

P95Index(len) == (len * 95) \div 100
P99Index(len) ==
    IF (len * 99) \div 100 < len - 1 THEN (len * 99) \div 100 ELSE len - 1

RECURSIVE SumSeq(_)
SumSeq(q) == IF q = <<>> THEN 0 ELSE q[1] + SumSeq(Tail(q))

RECURSIVE SumSquares(_)
SumSquares(q) == IF q = <<>> THEN 0 ELSE q[1] * q[1] + SumSquares(Tail(q))

\* the variance under the square root of jitter, times len^2 (kept exact):
\* sum((x - mean)^2) / len = (len * sum(x^2) - sum(x)^2) / len^2
VarianceTimesLenSq(sorted) ==
    Len(sorted) * SumSquares(sorted) - SumSeq(sorted) * SumSeq(sorted)

\* the percentile and jitter block of get, on the sorted copy
Percentiles(sorted) ==
    IF sorted = <<>>
    THEN [p50 |-> 0, p95 |-> 0, p99 |-> 0, jitter_sq |-> 0]
    ELSE [p50 |-> sorted[P50Index(Len(sorted)) + 1],
          p95 |-> sorted[P95Index(Len(sorted)) + 1],
          p99 |-> sorted[P99Index(Len(sorted)) + 1],
          jitter_sq |-> VarianceTimesLenSq(sorted)]

\* self.start_time.elapsed(): Ok with the time since LatencyStats::new, or
\* Err when the wall clock reads earlier than start_time
ClockOk(ms) == [ok |-> TRUE, ms |-> ms]
ClockWentBack == [ok |-> FALSE, ms |-> 0]

\* the readings of the clock the closing call of get can meet
ClockReadings == {ClockOk(0), ClockOk(2000), ClockWentBack}

\* the readings of the clock a call of get in the display task can meet
TickClockReadings == {ClockOk(2000), ClockWentBack}

\* if elapsed > 0.0 { count as f64 / elapsed } else { 0.0 }, in trades per
\* second, kept as a fraction
Throughput(count, elapsed) ==
    IF elapsed.ms > 0 THEN [num |-> count * 1000, den |-> elapsed.ms]
    ELSE ZeroThroughput

\* ------------------------------------------------------------------------
\* main: the receive loop, one action per step that touches shared state
\* ------------------------------------------------------------------------

\* what an operation on the file system or the network can come to
IoOutcomes == {"ok", "err"}

\* the most bytes of a line that reach the file before its write fails
\* (the header has 42 bytes, a record line at least 12)
MaxCut == 10

\* the first `bytes` bytes of a line, as a write that failed part-way
\* leaves them at the end of the file
CutLine(line, bytes) == <<line, bytes>>

\* writeln!(file, ...) that returned Err after `bytes` bytes of the line
\* had reached the file (write_all writes piece by piece)
FailedWrite(file, line, bytes) ==
    IF bytes = 0 THEN file ELSE Append(file, CutLine(line, bytes))

\* OpenOptions...open(file).expect(..) and the header written with
\* writeln!(..).unwrap(), when CSV_FILE is set: an Err of either panics.
\* The file is empty when the open failed or the write failed before its
\* first byte, and holds the bytes written when the write failed later.
OpenCsv ==
    /\ main.pc = "open"
    /\ \E io \in IoOutcomes, bytes \in 0..MaxCut :
         /\ cfg.csv_file \/ io = "ok"
         /\ io = "ok" => bytes = 0
         /\ main' = IF io = "ok" THEN [main EXCEPT !.pc = "connect"]
                    ELSE Panicked(main, "open")
         /\ csv_writer' = IF ~cfg.csv_file THEN csv_writer
                          ELSE IF io = "ok" THEN <<Header>>
                          ELSE FailedWrite(<<>>, Header, bytes)
    /\ UNCHANGED <<cfg, csv_buffer, callers, calibration, stats, recent_latencies, window_lock, stream,
                   final_stats, display, chan, producer, writer, obs>>

\* connect_async(url).await.expect("Erro ao conectar")
Connect ==
    /\ main.pc = "connect"
    /\ \E io \in IoOutcomes :
         main' = IF io = "ok" THEN [main EXCEPT !.pc = "recv"]
                 ELSE Panicked(main, "connect")
    /\ UNCHANGED <<cfg, csv_buffer, callers, calibration, stats, recent_latencies, window_lock, stream,
                   csv_writer, final_stats, display, chan, producer, writer,
                   obs>>

\* an item of the stream, with the reading of the system clock at its
\* arrival given as its distance in ms from EventTime; `epoch` is whether
\* that reading lies at or after UNIX_EPOCH
TextItem(text, skew) ==
    [kind |-> "text", text |-> text, skew |-> skew, epoch |-> TRUE]
EarlyClockItem(text) ==
    [kind |-> "text", text |-> text, skew |-> 0, epoch |-> FALSE]
BinaryItem == [kind |-> "binary", text |-> <<>>, skew |-> 0, epoch |-> TRUE]
ErrorItem == [kind |-> "error", text |-> <<>>, skew |-> 0, epoch |-> TRUE]

\* read.next().await yields Some(msg); `if let Ok(Message::Text(text)) = msg`
\* takes a text frame, which is stamped at once, and passes over every
\* other item, an Err included.  The stamp is SystemTime::now() in ms, a
\* reading of the wall clock taken anew for each frame: the system may set
\* that clock back between two readings, and duration_since(UNIX_EPOCH)
\* .unwrap() panics on a reading before 1970.
Receive(items, limit) ==
    /\ main.pc = "recv"
    /\ stream < limit
    /\ \E item \in items :
         main' = IF item.kind = "text" /\ ~item.epoch
                 THEN Panicked([main EXCEPT !.text = item.text,
                                            !.msg = item.kind], "clock")
                 ELSE IF item.kind = "text"
                 THEN [main EXCEPT !.pc = "extract", !.text = item.text,
                                   !.recv_ts = BigAddInt(EventTime, item.skew),
                                   !.msg = item.kind]
                 ELSE [main EXCEPT !.msg = item.kind]
    /\ stream' = stream + 1
    /\ UNCHANGED <<cfg, csv_buffer, callers, calibration, stats, recent_latencies, window_lock, csv_writer,
                   final_stats, display, chan, producer, writer, obs>>

\* read.next().await yields None: the loop ends
StreamEnd ==
    /\ main.pc = "recv"
    /\ main' = [main EXCEPT !.pc = "final"]
    /\ UNCHANGED <<cfg, csv_buffer, callers, calibration, stats, recent_latencies, window_lock, stream,
                   csv_writer, final_stats, display, chan, producer, writer,
                   obs>>

\* the loop left when extraction yields nothing
Discard_Stops(m) == [m EXCEPT !.pc = "final", !.trade = NoTrade]

\* extract_trade_data returned None: nothing is done with the frame and the
\* loop goes back to read.next()
Discard(m) == [m EXCEPT !.pc = "recv", !.trade = NoTrade]

\* extract_trade_data(&text), the latency, and the call of stats.update; a
\* panic inside extract_trade_data unwinds main
ExtractStep ==
    /\ main.pc = "extract"
    /\ \E t \in {extract_trade_data(main.text, cfg.overflow_checks)} :
       LET lat == SignedDiff(main.recv_ts, t.ts)
       IN  IF t.panic
           THEN /\ main' = Panicked(main, "digits")
                /\ obs' = obs
           ELSE IF t.some
           THEN /\ main' = [main EXCEPT !.pc = "upd_count", !.trade = t,
                                        !.latency_ms = lat,
                                        !.latency_us = ToMicros(lat)]
                /\ obs' = Observe(obs, stats, t.id, lat)
           ELSE /\ main' = Discard(main)
                /\ obs' = obs
    /\ UNCHANGED <<cfg, csv_buffer, callers, calibration, stats, recent_latencies, window_lock, stream,
                   csv_writer, final_stats, display, chan, producer, writer>>

MainStep(from, to) ==
    /\ main.pc = from
    /\ main' = [main EXCEPT !.pc = to]

StatsOnly ==
    UNCHANGED <<cfg, csv_buffer, callers, calibration, recent_latencies, window_lock, stream, csv_writer,
                final_stats, display, chan, producer, writer, obs>>

\* self.count.fetch_add(1)
UpdCount ==
    /\ MainStep("upd_count", "upd_total")
    /\ stats' = [stats EXCEPT !.count = @ + 1]
    /\ StatsOnly

\* self.total_latency.fetch_add(latency_us)
UpdTotal ==
    /\ MainStep("upd_total", "min_load")
    /\ stats' = [stats EXCEPT !.total_latency = WrappingAdd(@, main.latency_us)]
    /\ StatsOnly

\* let current = self.min.load(); if latency_us >= current { break; }
MinLoad ==
    /\ main.pc = "min_load"
    /\ main' = [main EXCEPT !.current = stats.min,
                   !.pc = IF BLe(stats.min, main.latency_us)
                          THEN "max_load" ELSE "min_cas"]
    /\ UNCHANGED stats
    /\ StatsOnly

\* self.min.compare_exchange(current, latency_us)
MinCas ==
    /\ main.pc = "min_cas"
    /\ IF stats.min = main.current
       THEN /\ stats' = [stats EXCEPT !.min = main.latency_us]
            /\ main' = [main EXCEPT !.pc = "max_load"]
       ELSE /\ stats' = stats
            /\ main' = [main EXCEPT !.pc = "min_load"]
    /\ StatsOnly

\* let current = self.max.load(); if latency_us <= current { break; }
MaxLoad ==
    /\ main.pc = "max_load"
    /\ main' = [main EXCEPT !.current = stats.max,
                   !.pc = IF BLe(main.latency_us, stats.max)
                          THEN "seq_load" ELSE "max_cas"]
    /\ UNCHANGED stats
    /\ StatsOnly

\* self.max.compare_exchange(current, latency_us)
MaxCas ==
    /\ main.pc = "max_cas"
    /\ IF stats.max = main.current
       THEN /\ stats' = [stats EXCEPT !.max = main.latency_us]
            /\ main' = [main EXCEPT !.pc = "seq_load"]
       ELSE /\ stats' = stats
            /\ main' = [main EXCEPT !.pc = "max_load"]
    /\ StatsOnly

\* let last_id = self.last_trade_id.load()
SeqLoad ==
    /\ main.pc = "seq_load"
    /\ main' = [main EXCEPT !.pc = "seq_check", !.last_id = stats.last_trade_id]
    /\ UNCHANGED stats
    /\ StatsOnly

\* the out_of_order / gaps_detected fetch_add chosen by the comparison; a
\* panic of `last_id + 1` unwinds main out of update
SeqCheck ==
    /\ main.pc = "seq_check"
    /\ LET r == SequenceCheck(stats, main.last_id, main.trade.id,
                              cfg.overflow_checks)
       IN  /\ stats' = r.stats
           /\ main' = IF r.panic THEN Panicked(main, "last_id")
                      ELSE [main EXCEPT !.pc = "seq_store"]
    /\ StatsOnly

\* the id stored only when it is above the one recorded
StoreLastId_KeepsHighest(st, trade_id) ==
    IF BLt(st.last_trade_id, trade_id)
    THEN [st EXCEPT !.last_trade_id = trade_id] ELSE st

\* self.last_trade_id.store(trade_id)
StoreLastId(st, trade_id) == [st EXCEPT !.last_trade_id = trade_id]

SeqStore ==
    /\ MainStep("seq_store", "win_lock")
    /\ stats' = StoreLastId(stats, main.trade.id)
    /\ StatsOnly

WindowOnly ==
    UNCHANGED <<cfg, csv_buffer, callers, calibration, stats, stream, csv_writer, final_stats, display, chan,
                producer, writer, obs>>

\* self.recent_latencies.lock().unwrap(): waits while the lock is held, and
\* panics on a Mutex poisoned by a holder that panicked
WinLock ==
    /\ main.pc = "win_lock"
    /\ window_lock \in {"free", "poisoned"}
    /\ main' = IF window_lock = "free" THEN [main EXCEPT !.pc = "win_push"]
               ELSE Panicked(main, "poisoned")
    /\ window_lock' = IF window_lock = "free" THEN "main" ELSE window_lock
    /\ UNCHANGED recent_latencies
    /\ WindowOnly

\* latencies.push_back(latency_ms)
WinPush ==
    /\ MainStep("win_push", "win_evict")
    /\ recent_latencies' = PushBack(recent_latencies, main.latency_ms)
    /\ UNCHANGED window_lock
    /\ WindowOnly

\* the eviction, then update returns and drops the guard
WinEvict ==
    /\ MainStep("win_evict", "csv")
    /\ recent_latencies' = EvictOldest(recent_latencies, cfg.max_samples)
    /\ window_lock' = "free"
    /\ WindowOnly

\* only the first record of a run written
WriteRecord_OnlyFirst(file, line) ==
    IF Len(file) > 1 THEN file ELSE Append(file, line)

\* writeln!(file, ...) that returned Ok: one more line in the file
WriteRecord(file, line) == Append(file, line)

\* if let Some(ref mut file) = csv_writer { writeln!(...).unwrap() }: an Err
\* of the write panics, with the bytes written before the failure left in
\* the file.  The flush every 1000 trades adds nothing: a File has no
\* buffer of its own, and its result is dropped.
CsvWrite ==
    /\ main.pc = "csv"
    /\ \E io \in IoOutcomes, bytes \in 0..MaxCut :
         /\ cfg.csv_file \/ io = "ok"
         /\ io = "ok" => bytes = 0
         /\ main' = IF io = "ok" THEN [main EXCEPT !.pc = "check_min"]
                    ELSE Panicked(main, "write")
         /\ csv_writer' =
              LET line == CsvLine(main.trade.id, main.trade.ts, main.recv_ts,
                                  main.latency_ms, MachineId)
              IN  IF ~cfg.csv_file THEN csv_writer
                  ELSE IF io = "ok" THEN WriteRecord(csv_writer, line)
                  ELSE FailedWrite(csv_writer, line, bytes)
    /\ UNCHANGED <<cfg, csv_buffer, callers, calibration, stats, recent_latencies, window_lock, stream,
                   final_stats, display, chan, producer, writer, obs>>

\* count > min_trades in place of count >= min_trades
ReachedMinTrades_OneLate(min_trades, count) ==
    min_trades > 0 /\ count > min_trades

\* if min_trades > 0 { let count = stats.count.load(); if count >= min_trades
ReachedMinTrades(min_trades, count) ==
    min_trades > 0 /\ count >= min_trades

\* if min_trades > 0 && count >= min_trades { break; }
CheckMin ==
    /\ main.pc = "check_min"
    /\ main' = [main EXCEPT
                  !.pc = IF ReachedMinTrades(cfg.min_trades, stats.count)
                         THEN "final" ELSE "recv",
                  !.latency_us = BigZero, !.current = BigZero,
                  !.last_id = BigZero]
    /\ UNCHANGED <<cfg, csv_buffer, callers, calibration, stats, recent_latencies, window_lock, stream,
                   csv_writer, final_stats, display, chan, producer, writer,
                   obs>>

\* the steps of the closing stats.get() leave all but main, its report and
\* the lock of the window alone
FinalOnly ==
    UNCHANGED <<cfg, csv_buffer, callers, calibration, stats, recent_latencies, stream, csv_writer,
                display, chan, producer, writer, obs>>

\* the positions of main inside the closing call of get
FinalPcs ==
    {"final", "f_total", "f_min", "f_max", "f_lock", "f_sort", "f_pct",
     "f_gaps", "f_ooo"}

\* the stats.get() after the loop, from its first load:
\* let count = self.count.load(); if count == 0 { return (0, 0.0, ...) }
FinalCount ==
    /\ main.pc = "final"
    /\ IF stats.count = 0
       THEN /\ main' = [main EXCEPT !.pc = "exit"]
            /\ final_stats' = ZeroReport
       ELSE /\ main' = [main EXCEPT !.pc = "f_total",
                                    !.get.count = stats.count]
            /\ final_stats' = final_stats
    /\ UNCHANGED window_lock
    /\ FinalOnly

\* self.total_latency.load()
FinalTotal ==
    /\ main.pc = "f_total"
    /\ main' = [main EXCEPT !.pc = "f_min", !.get.total = stats.total_latency]
    /\ UNCHANGED <<final_stats, window_lock>>
    /\ FinalOnly

\* self.min.load()
FinalMin ==
    /\ main.pc = "f_min"
    /\ main' = [main EXCEPT !.pc = "f_max", !.get.min = stats.min]
    /\ UNCHANGED <<final_stats, window_lock>>
    /\ FinalOnly

\* self.max.load()
FinalMax ==
    /\ main.pc = "f_max"
    /\ main' = [main EXCEPT !.pc = "f_lock", !.get.max = stats.max]
    /\ UNCHANGED <<final_stats, window_lock>>
    /\ FinalOnly

\* self.recent_latencies.lock().unwrap(): main waits while the display task
\* holds the lock, and the unwrap panics on a poisoned Mutex
FinalLock ==
    /\ main.pc = "f_lock"
    /\ window_lock \in {"free", "poisoned"}
    /\ main' = IF window_lock = "free" THEN [main EXCEPT !.pc = "f_sort"]
               ELSE Panicked(main, "poisoned")
    /\ window_lock' = IF window_lock = "free" THEN "main" ELSE window_lock
    /\ UNCHANGED final_stats
    /\ FinalOnly

\* the copy of the window and its sort
FinalSort ==
    /\ main.pc = "f_sort"
    /\ main' = [main EXCEPT !.pc = "f_pct",
                            !.get.sorted = Sorted(recent_latencies)]
    /\ UNCHANGED <<final_stats, window_lock>>
    /\ FinalOnly

\* percentiles and jitter of the sorted copy, then the throughput from
\* self.start_time.elapsed().unwrap(): an Err panics while the guard is
\* held, which unwinds main and poisons the Mutex
FinalPercentiles ==
    /\ main.pc = "f_pct"
    /\ \E elapsed \in ClockReadings :
         LET pc == Percentiles(main.get.sorted)
         IN  IF elapsed.ok
             THEN /\ main' =
                       [main EXCEPT !.pc = "f_gaps", !.get.p50 = pc.p50,
                                    !.get.p95 = pc.p95, !.get.p99 = pc.p99,
                                    !.get.jitter_sq = pc.jitter_sq,
                                    !.get.throughput =
                                       Throughput(main.get.count, elapsed)]
                  /\ window_lock' = window_lock
             ELSE /\ main' = Panicked(main, "elapsed")
                  /\ window_lock' = "poisoned"
    /\ UNCHANGED final_stats
    /\ FinalOnly

\* self.gaps_detected.load()
FinalGaps ==
    /\ main.pc = "f_gaps"
    /\ main' = [main EXCEPT !.pc = "f_ooo", !.get.gaps = stats.gaps_detected]
    /\ UNCHANGED <<final_stats, window_lock>>
    /\ FinalOnly

\* self.out_of_order.load(), then get returns its tuple to main and drops
\* the guard
FinalReturn ==
    /\ main.pc = "f_ooo"
    /\ main' = [main EXCEPT !.pc = "exit", !.get = GetLocals]
    /\ final_stats' =
         [count |-> main.get.count, total_us |-> main.get.total,
          min_us |-> main.get.min, max_us |-> main.get.max,
          p50 |-> main.get.p50, p95 |-> main.get.p95, p99 |-> main.get.p99,
          jitter_sq |-> main.get.jitter_sq, gaps |-> main.get.gaps,
          out_of_order |-> stats.out_of_order,
          throughput |-> main.get.throughput]
    /\ window_lock' = "free"
    /\ FinalOnly

\* let (count, avg, ...) = stats.get() after the loop
FinalStats ==
    \/ FinalCount
    \/ FinalTotal
    \/ FinalMin
    \/ FinalMax
    \/ FinalLock
    \/ FinalSort
    \/ FinalPercentiles
    \/ FinalGaps
    \/ FinalReturn

MainNext(items, limit) ==
    \/ OpenCsv
    \/ Connect
    \/ Receive(items, limit)
    \/ StreamEnd
    \/ ExtractStep
    \/ UpdCount
    \/ UpdTotal
    \/ MinLoad
    \/ MinCas
    \/ MaxLoad
    \/ MaxCas
    \/ SeqLoad
    \/ SeqCheck
    \/ SeqStore
    \/ WinLock
    \/ WinPush
    \/ WinEvict
    \/ CsvWrite
    \/ CheckMin
    \/ FinalStats

\* ------------------------------------------------------------------------
\* the run without the display task (REALTIME=0)
\* ------------------------------------------------------------------------

\* the longest stream of the run
MaxItems == 4

\* frames and arrival clocks of the run: trades 1..4 arriving 42 ms after
\* their event time, trade 2 arriving 5 ms before it, trade 3 arriving 7 ms
\* after it, the two-field payload, a trade with id 0, a trade whose id
\* digits read 2^64, a frame stamped by a clock set before 1970, and frames
\* that are not text
Items ==
    {TextItem(TradePayload(<<"1">>), 42), TextItem(TradePayload(<<"2">>), 42),
     TextItem(TradePayload(<<"3">>), 42), TextItem(TradePayload(<<"4">>), 42),
     TextItem(TradePayload(<<"2">>), 0 - 5), TextItem(TradePayload(<<"3">>), 7),
     TextItem(ShortPayload, 42), TextItem(TradePayload(<<"0">>), 42),
     TextItem(LowTimePayload, 42), TextItem(TradePayload(TwoTo64Digits), 42),
     EarlyClockItem(TradePayload(<<"1">>)), BinaryItem, ErrorItem}

\* a configuration in a build with (as a debug build) or without (as a
\* release build) integer overflow checks
Built(c, overflow_checks) ==
    [csv_file |-> c.csv_file, min_trades |-> c.min_trades,
     max_samples |-> c.max_samples, overflow_checks |-> overflow_checks]

Configs ==
    {Built(c, b) :
       c \in {[csv_file |-> TRUE, min_trades |-> 0, max_samples |-> 2],
              [csv_file |-> FALSE, min_trades |-> 3, max_samples |-> 1],
              [csv_file |-> TRUE, min_trades |-> 2, max_samples |-> 0]},
       b \in BOOLEAN}

InitRun(realtime, configs) ==
    /\ \E c \in configs :
         /\ cfg = [csv_file |-> c.csv_file, min_trades |-> c.min_trades,
                   max_samples |-> c.max_samples, show_realtime |-> realtime,
                   overflow_checks |-> c.overflow_checks]
         /\ csv_writer = <<>>
    /\ csv_buffer = BufferOff
    /\ callers = CallersOff
    /\ calibration = CalOff
    /\ stats = NewStats
    /\ recent_latencies = <<>>
    /\ window_lock = "free"
    /\ main = MainStart
    /\ stream = 0
    /\ final_stats = ZeroReport
    /\ display = DisplayIdle
    /\ chan = <<>>
    /\ producer = ProducerIdle
    /\ writer = WriterIdle
    /\ obs = ObsInit

Init == InitRun(FALSE, Configs)

Next == MainNext(Items, MaxItems)

Spec == Init /\ [][Next]_vars

\* ------------------------------------------------------------------------
\* properties of the run
\* ------------------------------------------------------------------------

\* no update is in flight
AtBoundary == main.pc \in {"recv", "exit"} \union FinalPcs

\* the sequence validation of the last update has been carried out
SequenceChecked ==
    main.pc \in {"seq_store", "win_lock", "win_push", "win_evict", "csv",
                 "check_min", "recv", "exit"} \union FinalPcs

RECURSIVE MinOf(_)
MinOf(q) ==
    IF Len(q) = 1 THEN q[1]
    ELSE IF q[1] < MinOf(Tail(q)) THEN q[1] ELSE MinOf(Tail(q))

RECURSIVE MaxOf(_)
MaxOf(q) ==
    IF Len(q) = 1 THEN q[1]
    ELSE IF q[1] > MaxOf(Tail(q)) THEN q[1] ELSE MaxOf(Tail(q))

\* the last n entries of q, all of q when it is shorter
LastN(q, n) ==
    IF Len(q) <= n THEN q ELSE SubSeq(q, Len(q) - n + 1, Len(q))

\* the record lines of main's file, without the header
RecordLines == IF cfg.csv_file THEN Tail(csv_writer) ELSE <<>>

\* C1: after any sequence of update calls the recorded min (microseconds) is
\* <= every submitted latency, the recorded max is >= every submitted
\* latency, and count is the number of calls.
C1_MinMaxCount ==
    AtBoundary =>
        /\ stats.count = Len(obs.submitted)
        /\ \A i \in 1..Len(obs.submitted) :
             /\ obs.submitted[i] >= 0
             /\ BLe(stats.min, BigOfNat(obs.submitted[i] * 1000))
             /\ BLe(BigOfNat(obs.submitted[i] * 1000), stats.max)

\* C4: once update has validated the sequence against a recorded prior id,
\* an id below the prior id has added exactly 1 to out_of_order and nothing
\* to gaps_detected, an id above prior + 1 has added exactly id - prior - 1
\* to gaps_detected and nothing to out_of_order, an id equal to prior or
\* prior + 1 has changed neither; ids 1, 2, 4, 3 give gaps 1, out of order 1.
C4_SequenceCounters ==
    /\ (SequenceChecked /\ Len(obs.submitted) >= 2) =>
         LET id == obs.prev_id
             prior == obs.before_id
             ooo == stats.out_of_order - obs.ooo_before
         IN  /\ BLt(id, prior) =>
                  ooo = 1 /\ stats.gaps_detected = obs.gaps_before
             /\ BLt(BAdd(prior, One), id) =>
                  /\ stats.gaps_detected =
                       BAdd(obs.gaps_before, BSub(BSub(id, prior), One))
                  /\ ooo = 0
             /\ (id = prior \/ id = BAdd(prior, One)) =>
                  ooo = 0 /\ stats.gaps_detected = obs.gaps_before
    /\ (AtBoundary /\ obs.scenario = 4) =>
         stats.gaps_detected = One /\ stats.out_of_order = 1

\* C5: outside update's critical section the window holds at most
\* max_samples entries, and between updates it holds exactly the last
\* max_samples submitted latencies, oldest first.
C5_WindowBounded ==
    /\ window_lock # "main" => Len(recent_latencies) <= cfg.max_samples
    /\ AtBoundary => recent_latencies = LastN(obs.submitted, cfg.max_samples)

\* two updates beyond a capacity of 2, with differing latencies in the window
C5_Witness ==
    /\ AtBoundary
    /\ cfg.max_samples = 2
    /\ Len(obs.submitted) = cfg.max_samples + 2
    /\ recent_latencies = <<0 - 5, 42>>

\* C6: the two-field payload {"t":5827967018,"T":1769693418802} arriving
\* 42 ms after its event time, as the first frame, yields latency 42, one
\* stats update and one record with identifier 5827967018.
C6_EndToEnd ==
    (/\ stream = 1
     /\ AtBoundary
     /\ main.text = ShortPayload
     /\ main.recv_ts = BigAddInt(EventTime, 42))
    => /\ main.trade = SomeTrade(BigId, EventTime)
       /\ main.latency_ms = 42
       /\ stats.count = 1
       /\ cfg.csv_file =>
            csv_writer = <<Header, CsvLine(BigId, EventTime, main.recv_ts, 42,
                                           MachineId)>>

\* C7: the signed latency arrival - event time is carried unclamped into the
\* record and into the aggregator: between updates the sum, min and max
\* (microseconds) are the sum, least and greatest of the submitted signed
\* latencies, and each record line holds the signed latency.
C7_NeverClamped ==
    (AtBoundary /\ obs.submitted # <<>>) =>
        /\ NatOfBig(stats.total_latency) = 1000 * SumSeq(obs.submitted)
        /\ NatOfBig(stats.min) = 1000 * MinOf(obs.submitted)
        /\ NatOfBig(stats.max) = 1000 * MaxOf(obs.submitted)
        /\ cfg.csv_file =>
             \A i \in 1..Len(RecordLines) :
                 RecordLines[i][4] = TwoDecimals(obs.submitted[i])

\* C8 as claimed: strictly increasing ids yield zero gaps, zero out-of-order
\* and a count equal to the number of payloads.
C8_IncreasingNoGaps ==
    (AtBoundary /\ obs.increasing) =>
        /\ stats.gaps_detected = BigZero
        /\ stats.out_of_order = 0
        /\ stats.count = Len(obs.submitted)

\* C8 amended: consecutive ids (each the previous id plus one) yield zero
\* gaps, zero out-of-order, a count and a record count equal to the number
\* of accepted payloads; strictly increasing ids yield zero out-of-order
\* and gaps equal to the number of ids skipped.
C8_ConsecutiveNoGaps ==
    /\ (AtBoundary /\ obs.consecutive) =>
         /\ stats.gaps_detected = BigZero
         /\ stats.out_of_order = 0
         /\ stats.count = Len(obs.submitted)
         /\ cfg.csv_file => Len(RecordLines) = Len(obs.submitted)
    /\ (AtBoundary /\ obs.increasing) =>
         /\ stats.out_of_order = 0
         /\ stats.gaps_detected = obs.skipped

\* three payloads with consecutive ids starting above 1 have been counted
C8_Witness ==
    /\ AtBoundary
    /\ obs.consecutive
    /\ Len(obs.submitted) = 3
    /\ obs.prev_id = BigOfNat(4)

\* the receive loop has been left
LoopLeft == main.pc \in FinalPcs \union {"exit"}

\* C12: with min_trades = m > 0 the loop is never at its head with m or
\* more records counted and count never exceeds m, so it stops right after
\* the m-th accepted record (count = m when it stops on count); the loop
\* is left on count only when min_trades > 0 and count = min_trades, and
\* otherwise (always so when min_trades = 0) only from its head, when the
\* stream has ended.
C12_StopsAtMinTrades ==
    /\ [](cfg.min_trades > 0 =>
            /\ stats.count <= cfg.min_trades
            /\ main.pc \in {"recv", "extract"} =>
                 stats.count < cfg.min_trades)
    /\ [][(~LoopLeft /\ LoopLeft') =>
            \/ main.pc = "recv"
            \/ /\ main.pc = "check_min"
               /\ cfg.min_trades > 0
               /\ stats.count = cfg.min_trades]_vars

\* C16: a text frame for which extraction yields nothing changes neither
\* the counters of LatencyStats (count, sum, min, max, last id, gaps, out
\* of order), nor the window, nor the file; it raises nothing, and the loop
\* goes back to await the next payload.
C16_ParseMissNoEffect ==
    [][(/\ main.pc = "extract"
        /\ extract_trade_data(main.text, cfg.overflow_checks) = NoTrade) =>
          /\ stats' = stats
          /\ recent_latencies' = recent_latencies
          /\ csv_writer' = csv_writer
          /\ obs'.submitted = obs.submitted
          /\ main'.pc = "recv"
          /\ main'.panic = "none"]_vars

\* the frame of a trade with id 0 has been discarded after one trade was
\* counted, and the loop awaits the third item
C16_Witness ==
    /\ main.pc = "recv"
    /\ main.text = TradePayload(<<"0">>)
    /\ ~main.trade.some
    /\ stats.count = 1
    /\ stream = 2

\* C18: a transport failure ends the run and is shown to the operator (the
\* one way main shows a failure is the message of the panic it unwinds
\* with): a failed connect leaves main panicked with nothing received, and
\* once the stream has yielded an Err main is panicked too, never back at
\* read.next() or at work on a payload.
C18_TransportFailureFatal ==
    /\ (main.pc = "panicked" /\ main.panic = "connect") => stream = 0
    /\ main.msg = "error" => main.pc = "panicked"

\* C20: the arrival stamps of successive payloads never decrease: each
\* stamp main takes is at least the stamp it took before.
C20_ArrivalNeverDecreases == [][BLe(main.recv_ts, main'.recv_ts)]_vars

\* C13: a failed write of a record to the file main writes does not end the
\* run: main never unwinds from it, and goes on to the next payload.
C13_WriteFailureNotFatal == ~(main.pc = "panicked" /\ main.panic = "write")

\* the loop has stopped on count, two records accepted, with the stream
\* still open and a frame that was not a trade received on the way
C12_Witness ==
    /\ LoopLeft
    /\ cfg.min_trades = 2
    /\ stats.count = 2
    /\ stream = 3

\* C25: with the file enabled, whenever the loop is at its head or has been
\* left, the file holds as many record lines as update has counted, one per
\* accepted payload; and a frame that is not text adds neither a count nor
\* a line, the loop staying at its head.
C25_OneLinePerUpdate ==
    /\ []((cfg.csv_file /\ AtBoundary) =>
            /\ Len(RecordLines) = stats.count
            /\ stats.count = Len(obs.submitted))
    /\ [][(main.pc = "recv" /\ stream' # stream /\ main'.msg # "text") =>
            /\ stats' = stats
            /\ csv_writer' = csv_writer
            /\ obs'.submitted = obs.submitted
            /\ main'.pc = "recv"]_vars

\* two payloads accepted and written, then a binary frame passed over: the
\* loop is at its head with two record lines and a count of two
C25_Witness ==
    /\ main.pc = "recv"
    /\ main.msg = "binary"
    /\ cfg.csv_file
    /\ stream = 3
    /\ stats.count = 2
    /\ Len(RecordLines) = 2

\* update is between its entry and its store of last_trade_id
BeforeIdStore ==
    main.pc \in {"upd_count", "upd_total", "min_load", "min_cas", "max_load",
                 "max_cas", "seq_load", "seq_check", "seq_store"}

\* no update has stored an id yet
NoIdRecorded ==
    \/ obs.submitted = <<>>
    \/ Len(obs.submitted) = 1 /\ BeforeIdStore

\* C21: whenever extract_trade_data has returned a result its id is above 0
\* and its time above 1000000000000; update is therefore never running for
\* id 0, and last_trade_id is 0 exactly as long as no update has stored an
\* id.
C21_ResultAboveFloor ==
    /\ main.trade.some =>
         /\ BLt(BigZero, main.trade.id)
         /\ BLt(MinTimestamp, main.trade.ts)
    /\ BeforeIdStore => main.trade.some
    /\ stats.last_trade_id = BigZero <=> NoIdRecorded

\* one result has gone through update, which recorded its id, and the frame
\* with event time 999 that came next has been turned down
C21_Witness ==
    /\ main.pc = "recv"
    /\ main.text = LowTimePayload
    /\ ~main.trade.some
    /\ stats.count = 1
    /\ stats.last_trade_id # BigZero
    /\ stream = 2

\* ------------------------------------------------------------------------
\* extract_trade_data on assembled payloads
\* ------------------------------------------------------------------------

\* a text frame {field,...,field tail has arrived and awaits extraction
InitExtract ==
    /\ \E fields \in FieldLists, tail \in Tails :
         /\ main = [MainIdle EXCEPT !.pc = "extract",
                                    !.text = RenderPayload(fields, tail),
                                    !.recv_ts = BigAddInt(EventTime, 42)]
         /\ obs = [ObsInit EXCEPT !.fields = fields, !.tail = tail]
    /\ \E b \in BOOLEAN :
         cfg = [csv_file |-> FALSE, min_trades |-> 0, max_samples |-> 2,
                show_realtime |-> FALSE, overflow_checks |-> b]
    /\ csv_writer = <<>>
    /\ csv_buffer = BufferOff
    /\ callers = CallersOff
    /\ calibration = CalOff
    /\ stats = NewStats
    /\ recent_latencies = <<>>
    /\ window_lock = "free"
    /\ stream = 1
    /\ final_stats = ZeroReport
    /\ display = DisplayIdle
    /\ chan = <<>>
    /\ producer = ProducerIdle
    /\ writer = WriterIdle

NextExtract == ExtractStep

SpecExtract == InitExtract /\ [][NextExtract]_vars

\* extract_trade_data has returned
Extracted == main.pc # "extract"

\* extract_trade_data has returned None
ReturnedNone == main.pc = "recv" /\ ~main.trade.some

IdFields ==
    {FieldIdBig, FieldIdSpaced, FieldIdZero, FieldIdBad, FieldIdWraps,
     FieldIdWrapsZero}
TimeFields == {FieldTime, FieldTimeLow, FieldTimeBad, FieldTimeWraps}

\* fields whose key is followed (after spaces) by the digits of a u64 that
\* passes the check of its loop, and the numbers they carry
ValidIdFields == {FieldIdBig, FieldIdSpaced}
ValidTimeFields == {FieldTime}
FieldNumber(f) ==
    IF f = FieldIdBig THEN BigId
    ELSE IF f = FieldIdSpaced THEN BigOfNat(7)
    ELSE EventTime

PositionsOf(fields, kinds) == {i \in 1..Len(fields) : fields[i] \in kinds}

\* the first field of the list that lies in kinds
FirstOf(fields, kinds) ==
    fields[CHOOSE i \in PositionsOf(fields, kinds) :
               \A k \in PositionsOf(fields, kinds) : i <= k]

\* C2: a payload with one well-formed id field and one well-formed time
\* field yields exactly those two values, whatever its length and wherever
\* the keys sit.
C2_ExtractsBoth ==
    (/\ Extracted
     /\ Cardinality(PositionsOf(obs.fields, IdFields)) = 1
     /\ Cardinality(PositionsOf(obs.fields, TimeFields)) = 1
     /\ PositionsOf(obs.fields, ValidIdFields) # {}
     /\ PositionsOf(obs.fields, ValidTimeFields) # {})
    => main.trade = SomeTrade(FieldNumber(FirstOf(obs.fields, ValidIdFields)),
                              FieldNumber(FirstOf(obs.fields, ValidTimeFields)))

\* C3: a payload that lacks a required key, or whose first occurrence of a
\* required key is followed at once by a non-digit, makes extract_trade_data
\* return None, later occurrences of the key notwithstanding.
C3_NoneOnBadField ==
    (/\ Extracted
     /\ \/ PositionsOf(obs.fields, IdFields) = {}
        \/ PositionsOf(obs.fields, TimeFields) = {}
        \/ FirstOf(obs.fields, IdFields) = FieldIdBad
        \/ FirstOf(obs.fields, TimeFields) = FieldTimeBad)
    => ReturnedNone

\* ------------------------------------------------------------------------
\* the display task (REALTIME=1): stats_clone.get() once per tick, one
\* action per step that touches shared state
\* ------------------------------------------------------------------------

\* the most ticks of the display interval during the run
MaxTicks == 2

DisplayStep(from, to) ==
    /\ display.pc = from
    /\ display' = [display EXCEPT !.pc = to]

DisplayOnly ==
    UNCHANGED <<cfg, csv_buffer, callers, calibration, stats, recent_latencies, window_lock, main, stream,
                csv_writer, final_stats, chan, producer, writer, obs>>

\* the display task has been spawned: main is past the opening of the CSV
\* file.  The task lives until the runtime is dropped, so it is still there
\* while main prints its closing lines and while a panic of main unwinds.
Spawned ==
    /\ main.pc # "open"
    /\ ~(main.pc = "panicked" /\ main.panic = "open")

\* interval.tick().await returns
Tick ==
    /\ cfg.show_realtime
    /\ Spawned
    /\ display.pc = "tick"
    /\ display.ticks < MaxTicks
    /\ display' = [display EXCEPT !.pc = "g_count", !.ticks = @ + 1]
    /\ DisplayOnly

\* let count = self.count.load(); if count == 0 { return (0, 0.0, ...) }
GetCount ==
    /\ display.pc = "g_count"
    /\ display' = IF stats.count = 0
                  THEN [display EXCEPT !.pc = "tick", !.shown = ZeroReport]
                  ELSE [display EXCEPT !.pc = "g_total", !.count = stats.count]
    /\ DisplayOnly

\* self.total_latency.load()
GetTotal ==
    /\ display.pc = "g_total"
    /\ display' = [display EXCEPT !.pc = "g_min", !.total = stats.total_latency]
    /\ DisplayOnly

\* self.min.load()
GetMin ==
    /\ display.pc = "g_min"
    /\ display' = [display EXCEPT !.pc = "g_max", !.min = stats.min]
    /\ DisplayOnly

\* self.max.load()
GetMax ==
    /\ display.pc = "g_max"
    /\ display' = [display EXCEPT !.pc = "g_lock", !.max = stats.max]
    /\ DisplayOnly

\* let latencies = self.recent_latencies.lock().unwrap(); the guard lives
\* until get returns, and the unwrap panics inside the task on a Mutex
\* that main has poisoned
GetLock ==
    /\ display.pc = "g_lock"
    /\ window_lock \in {"free", "poisoned"}
    /\ display' = [display EXCEPT
                     !.pc = IF window_lock = "free" THEN "g_sort"
                            ELSE "panicked"]
    /\ window_lock' = IF window_lock = "free" THEN "display" ELSE window_lock
    /\ UNCHANGED <<cfg, csv_buffer, callers, calibration, stats, recent_latencies, main, stream, csv_writer,
                   final_stats, chan, producer, writer, obs>>

\* the copy of the window and its sort
GetSort ==
    /\ display.pc = "g_sort"
    /\ display' = [display EXCEPT !.pc = "g_pct",
                                  !.sorted = Sorted(recent_latencies)]
    /\ DisplayOnly

\* percentiles and jitter of the sorted copy, then the throughput from
\* self.start_time.elapsed().unwrap(): an Err panics inside the task while
\* the guard is held, which ends the task and poisons the Mutex
GetPercentiles ==
    /\ display.pc = "g_pct"
    /\ \E elapsed \in TickClockReadings :
         LET pc == Percentiles(display.sorted)
         IN  IF elapsed.ok
             THEN /\ display' =
                       [display EXCEPT !.pc = "g_gaps", !.p50 = pc.p50,
                                       !.p95 = pc.p95, !.p99 = pc.p99,
                                       !.jitter_sq = pc.jitter_sq,
                                       !.throughput =
                                          Throughput(display.count, elapsed)]
                  /\ window_lock' = window_lock
             ELSE /\ display' = [display EXCEPT !.pc = "panicked"]
                  /\ window_lock' = "poisoned"
    /\ UNCHANGED <<cfg, csv_buffer, callers, calibration, stats, recent_latencies, main, stream, csv_writer,
                   final_stats, chan, producer, writer, obs>>

\* self.gaps_detected.load()
GetGaps ==
    /\ display.pc = "g_gaps"
    /\ display' = [display EXCEPT !.pc = "g_ooo", !.gaps = stats.gaps_detected]
    /\ DisplayOnly

\* self.out_of_order.load(), then get returns its tuple and drops the guard
GetReturn ==
    /\ display.pc = "g_ooo"
    /\ display' =
         [DisplayIdle EXCEPT
            !.ticks = display.ticks,
            !.shown = [count |-> display.count, total_us |-> display.total,
                       min_us |-> display.min, max_us |-> display.max,
                       p50 |-> display.p50, p95 |-> display.p95,
                       p99 |-> display.p99, jitter_sq |-> display.jitter_sq,
                       gaps |-> display.gaps,
                       out_of_order |-> stats.out_of_order,
                       throughput |-> display.throughput]]
    /\ window_lock' = "free"
    /\ UNCHANGED <<cfg, csv_buffer, callers, calibration, stats, recent_latencies, main, stream, csv_writer,
                   final_stats, chan, producer, writer, obs>>

DisplayNext ==
    \/ Tick
    \/ GetCount
    \/ GetTotal
    \/ GetMin
    \/ GetMax
    \/ GetLock
    \/ GetSort
    \/ GetPercentiles
    \/ GetGaps
    \/ GetReturn

\* the longest stream of the run with the display task
MaxItemsRT == 2

ItemsRT ==
    {TextItem(TradePayload(<<"1">>), 42), TextItem(TradePayload(<<"3">>), 0 - 5),
     TextItem(ShortPayload, 42), BinaryItem}

ConfigsRT ==
    {Built([csv_file |-> TRUE, min_trades |-> 0, max_samples |-> 1], b) :
       b \in {FALSE}}

InitRT == InitRun(TRUE, ConfigsRT)

NextRT == MainNext(ItemsRT, MaxItemsRT) \/ DisplayNext

SpecRT == InitRT /\ [][NextRT]_vars

\* C10: get never sorts or computes percentiles while it holds the lock of
\* the window, so update never waits on that lock for the length of a sort.
C10_NoSortUnderLock ==
    ~(display.pc \in {"g_sort", "g_pct"} /\ window_lock = "display")

\* the latencies of the updates whose count.fetch_add has happened
Counted == SubSeq(obs.submitted, 1, stats.count)

\* C11: in every reachable state, the states inside an update in flight
\* included, count > 0 implies min <= every latency counted so far <= max;
\* and a report of get with count > 0, taken while update runs, never
\* carries the sentinel min (u64::MAX), nor max = 0 next to a counted
\* latency that is not zero, nor min > max.
C11_InFlightMinMax ==
    /\ stats.count > 0 =>
         \A i \in 1..Len(Counted) :
            /\ Counted[i] >= 0
            /\ BLe(stats.min, BigOfNat(Counted[i] * 1000))
            /\ BLe(BigOfNat(Counted[i] * 1000), stats.max)
    /\ display.shown.count > 0 =>
         /\ display.shown.min_us # U64Max
         /\ BLe(display.shown.min_us, display.shown.max_us)
         /\ display.shown.max_us = BigZero =>
              \A i \in 1..display.shown.count : obs.submitted[i] = 0

\* ------------------------------------------------------------------------
\* csv_writer_thread and the sender of its channel
\* ------------------------------------------------------------------------

\* count % 1000 == 0
FlushEvery == 1000

\* buffer.len() >= 1024 * 1024
BufferLimit == 1048576

\* the most records waiting in the channel at once
MaxQueue == 2

\* the TradeRecord with sequence number n
TradeRecord(n, machine_id) ==
    [trade_id |-> BigOfNat(n), ts |-> EventTime,
     recv_ts |-> BigAddInt(EventTime, 42), latency_ms |-> 42,
     machine_id |-> machine_id]

\* format!("{},{},{},{:.2},{}\n", record.trade_id, record.ts, record.recv_ts,
\*         record.latency_ms, record.machine_id)
FormatRecord(record) ==
    CsvLine(record.trade_id, record.ts, record.recv_ts, record.latency_ms,
            record.machine_id)

\* line.as_bytes().len() of a formatted line: the digits of the three u64,
\* the latency with its point and two decimals, the machine_id, four commas
\* and the newline
LineBytes(line) ==
    LET Digits(n) == IF n < 10 THEN 1 ELSE IF n < 100 THEN 2
                     ELSE IF n < 1000 THEN 3 ELSE IF n < 10000 THEN 4
                     ELSE IF n < 100000 THEN 5 ELSE IF n < 1000000 THEN 6
                     ELSE IF n < 10000000 THEN 7 ELSE IF n < 100000000 THEN 8
                     ELSE IF n < 1000000000 THEN 9 ELSE 10
        Width(a) == IF a[4] > 0 THEN 18 + Digits(a[4])
                    ELSE IF a[3] > 0 THEN 12 + Digits(a[3])
                    ELSE IF a[2] > 0 THEN 6 + Digits(a[2])
                    ELSE Digits(a[1])
        ms == line[4].whole
    IN  Width(line[1]) + Width(line[2]) + Width(line[3])
          + (IF ms < 0 THEN 1 + Digits(0 - ms) ELSE Digits(ms)) + 3
          + Len(line[5].text) + line[5].pad + 5

\* what write_all can come to on a buffer of len lines: Ok with all of it
\* written, or Err after the first k lines and the first `cut` bytes of the
\* line after them reached the file (file.flush() of a File cannot fail)
WriteOutcomes(len) ==
    {[io |-> "ok", k |-> len, cut |-> 0]}
       \cup {[io |-> "err", k |-> k, cut |-> c] :
               k \in 0..(len - 1), c \in 0..MaxCut}

\* what write_all(&buffer) with outcome `out` has put in the file
Written(buffer, out) ==
    IF out.io = "ok" THEN buffer
    ELSE FailedWrite(SubSeq(buffer, 1, out.k), buffer[out.k + 1], out.cut)

\* the sender: tx.send(record) while it has records left
ProducerSend ==
    /\ producer.alive
    /\ producer.sent < producer.total
    /\ writer.pc # "panicked"
    /\ Len(chan) < MaxQueue
    /\ chan' = Append(chan, TradeRecord(producer.sent + 1, producer.machine_id))
    /\ producer' = [producer EXCEPT !.sent = @ + 1]
    /\ UNCHANGED <<cfg, csv_buffer, callers, calibration, stats, recent_latencies, window_lock, main, stream,
                   csv_writer, final_stats, display, writer, obs>>

\* tx.send(record) once the receiver is gone returns Err with the record,
\* which reaches no file; the sender then goes on or gives up
ProducerRefused ==
    /\ producer.alive
    /\ producer.sent < producer.total
    /\ writer.pc = "panicked"
    /\ \E goes_on \in BOOLEAN :
         producer' = [producer EXCEPT !.sent = @ + 1, !.refused = @ + 1,
                                      !.alive = goes_on]
    /\ UNCHANGED <<cfg, csv_buffer, callers, calibration, stats, recent_latencies, window_lock, main, stream,
                   csv_writer, final_stats, display, chan, writer, obs>>

\* the sender drops tx once everything is sent
ProducerClose ==
    /\ producer.alive
    /\ producer.sent = producer.total
    /\ producer' = [producer EXCEPT !.alive = FALSE]
    /\ UNCHANGED <<cfg, csv_buffer, callers, calibration, stats, recent_latencies, window_lock, main, stream,
                   csv_writer, final_stats, display, chan, writer, obs>>

WriterOnly ==
    UNCHANGED <<cfg, csv_buffer, callers, calibration, stats, recent_latencies, window_lock, main, stream,
                csv_writer, final_stats, display, producer, obs>>

\* the thread unwinding from the expect or unwrap of a failed step: rx is
\* dropped, and what is left in the channel or in the buffer reaches no file
WriterPanicked(w, step) == [w EXCEPT !.pc = "panicked", !.panic = step]

\* OpenOptions...open(&csv_file).expect(..) and the header written with
\* writeln!(..).unwrap(): an Err of either panics the thread, with the
\* bytes of the header written before the failure left in the file
WriterOpen ==
    /\ writer.pc = "open"
    /\ \E io \in IoOutcomes, bytes \in 0..MaxCut :
         /\ io = "ok" => bytes = 0
         /\ writer' =
              IF io = "ok"
              THEN [writer EXCEPT !.pc = "recv", !.file = <<Header>>]
              ELSE WriterPanicked(
                     [writer EXCEPT !.file = FailedWrite(<<>>, Header, bytes)],
                     "open")
    /\ UNCHANGED chan
    /\ WriterOnly

\* the flush test of the loop body, after count += 1
MustFlush(count, bytes) == count % FlushEvery = 0 \/ bytes >= BufferLimit

\* rx.recv() returns Ok(record): one pass of the loop body.  When the test
\* asks for a flush, file.write_all(&buffer).unwrap() panics on an Err, with
\* the part of the buffer written before the failure left in the file.
WriterRecv ==
    /\ writer.pc = "recv"
    /\ chan # <<>>
    /\ \E line \in {FormatRecord(Head(chan))} :
         LET buffer == Append(writer.buffer, line)
             bytes == writer.bytes + LineBytes(line)
             count == writer.count + 1
         IN  IF MustFlush(count, bytes)
             THEN \E out \in WriteOutcomes(Len(buffer)) :
                    writer' =
                      IF out.io = "ok"
                      THEN [writer EXCEPT !.count = count, !.buffer = <<>>,
                                          !.bytes = 0, !.file = @ \o buffer]
                      ELSE WriterPanicked(
                             [writer EXCEPT
                                !.count = count, !.buffer = buffer,
                                !.bytes = bytes,
                                !.file = @ \o Written(buffer, out)],
                             "write")
             ELSE writer' = [writer EXCEPT !.count = count, !.buffer = buffer,
                                           !.bytes = bytes]
    /\ chan' = Tail(chan)
    /\ WriterOnly

\* rx.recv() returns Err: the channel is empty and every sender is gone
WriterDisconnected ==
    /\ writer.pc = "recv"
    /\ chan = <<>>
    /\ ~producer.alive
    /\ writer' = [writer EXCEPT !.pc = "last_flush"]
    /\ UNCHANGED chan
    /\ WriterOnly

\* if !buffer.is_empty() { file.write_all(&buffer); file.flush(); }
FinalFlush(file, buffer) == IF buffer # <<>> THEN file \o buffer ELSE file

\* the flush after the loop, then the thread returns; an Err of its
\* write_all panics in the unwrap
WriterFinish ==
    /\ writer.pc = "last_flush"
    /\ \E out \in WriteOutcomes(Len(writer.buffer)) :
         writer' =
           IF out.io = "ok"
           THEN [writer EXCEPT
                   !.pc = "done",
                   !.file = FinalFlush(writer.file, writer.buffer)]
           ELSE WriterPanicked(
                  [writer EXCEPT !.file = @ \o Written(writer.buffer, out)],
                  "write")
    /\ UNCHANGED chan
    /\ WriterOnly

ProducerNext == ProducerSend \/ ProducerRefused \/ ProducerClose

WriterNext == WriterOpen \/ WriterRecv \/ WriterDisconnected \/ WriterFinish

\* what the sender has to send: how many records, and the machine_id they
\* carry.  Lines of 47 bytes and more reach the file every FlushEvery
\* records and at the end; lines of 400000 bytes and more fill the buffer
\* to BufferLimit with the third
Loads ==
    ({0, 2, FlushEvery + 1} \X {ShortLabel}) \cup ({4} \X {LongLabel})

InitWriter ==
    /\ \E load \in Loads :
         producer = [ProducerIdle EXCEPT !.total = load[1],
                                         !.machine_id = load[2],
                                         !.alive = TRUE]
    /\ writer = [WriterIdle EXCEPT !.pc = "open"]
    /\ chan = <<>>
    /\ cfg = [csv_file |-> FALSE, min_trades |-> 0, max_samples |-> 2,
              show_realtime |-> FALSE,
              overflow_checks |-> FALSE]
    /\ csv_writer = <<>>
    /\ csv_buffer = BufferOff
    /\ callers = CallersOff
    /\ calibration = CalOff
    /\ stats = NewStats
    /\ recent_latencies = <<>>
    /\ window_lock = "free"
    /\ main = [MainIdle EXCEPT !.pc = "off"]
    /\ stream = 0
    /\ final_stats = ZeroReport
    /\ display = DisplayIdle
    /\ obs = ObsInit

NextWriter == ProducerNext \/ WriterNext

\* both are threads of their own, each scheduled for as long as it can run
SpecWriter ==
    InitWriter /\ [][NextWriter]_vars
        /\ WF_vars(ProducerNext) /\ WF_vars(WriterNext)

\* the lines of records 1..n in send order
SentLines(n) ==
    [i \in 1..n |-> FormatRecord(TradeRecord(i, producer.machine_id))]

\* csv_writer_thread has exited, by returning or by unwinding
WriterExited == writer.pc \in {"done", "panicked"}

\* C9: whatever the interleaving of a sender that sends its records and then
\* closes the channel, csv_writer_thread exits in the end, and when it has
\* exited the file holds the header and then every record sent, once each,
\* in send order, with nothing left in the channel.
C9_DrainsOnClose ==
    /\ <>WriterExited
    /\ [](WriterExited =>
            /\ writer.file = <<Header>> \o SentLines(producer.total)
            /\ chan = <<>>)

\* ------------------------------------------------------------------------
\* CsvBuffer: new, write_line, flush, finalize, called in any order
\* ------------------------------------------------------------------------

\* the most calls made on the CsvBuffer after new
MaxCalls == 5

\* the trades handed to write_line
BufferRecords == {TradeRecord(1, ShortLabel), TradeRecord(2, ShortLabel)}

\* one more call in the list of calls: the line it was given, what it
\* returned, and how many lines, whole or cut, it added to the file
Called(b, op, line, result, wrote) ==
    [b EXCEPT !.calls = Append(@, [op |-> op, line |-> line,
                                   result |-> result, wrote |-> wrote])]

\* CsvBuffer::new: create and truncate the file, write the header; an Err of
\* either is returned by `?` and no CsvBuffer comes to exist, while the
\* bytes of the header written before the failure stay in the file
new(b, io, bytes) ==
    IF io = "ok" THEN [b EXCEPT !.state = "open", !.file = <<Header>>]
    ELSE [b EXCEPT !.state = "failed",
                   !.file = FailedWrite(<<>>, Header, bytes)]

\* CsvBuffer::write_line: format the line, lock the buffer, append
write_line(b, trade_id, ts, recv_ts, latency_ms, machine_id) ==
    [b EXCEPT !.buffer =
        Append(@, CsvLine(trade_id, ts, recv_ts, latency_ms, machine_id))]

\* CsvBuffer::flush: nothing on an empty buffer; else write_all(&buffer)?,
\* file.flush()?, buffer.clear().  The `?` leaves before the clear.
flush(b, out) ==
    IF b.buffer = <<>> THEN b
    ELSE IF out.io = "ok"
         THEN [b EXCEPT !.file = @ \o b.buffer, !.buffer = <<>>]
         ELSE [b EXCEPT !.file = @ \o Written(b.buffer, out)]

\* the io::Result flush returns
FlushResult(b, out) == IF b.buffer = <<>> THEN "ok" ELSE out.io

\* CsvBuffer::finalize is self.flush()
finalize(b, out) == flush(b, out)

BufferOnly ==
    UNCHANGED <<cfg, callers, calibration, stats, recent_latencies, window_lock, main,
                stream, csv_writer, final_stats, display, chan, producer,
                writer, obs>>

BufNew ==
    /\ csv_buffer.state = "new"
    /\ \E io \in IoOutcomes, bytes \in 0..MaxCut :
         /\ io = "ok" => bytes = 0
         /\ csv_buffer' = new(csv_buffer, io, bytes)
    /\ BufferOnly

BufWriteLine ==
    /\ csv_buffer.state = "open"
    /\ Len(csv_buffer.calls) < MaxCalls
    /\ \E r \in BufferRecords :
         csv_buffer' =
           Called(write_line(csv_buffer, r.trade_id, r.ts, r.recv_ts,
                             r.latency_ms, r.machine_id),
                  "write_line", FormatRecord(r), "ok", 0)
    /\ BufferOnly

BufFlush ==
    /\ csv_buffer.state = "open"
    /\ Len(csv_buffer.calls) < MaxCalls
    /\ \E out \in WriteOutcomes(Len(csv_buffer.buffer)) :
         LET after == flush(csv_buffer, out)
         IN  csv_buffer' =
               Called(after, "flush", <<>>, FlushResult(csv_buffer, out),
                      Len(after.file) - Len(csv_buffer.file))
    /\ BufferOnly

BufFinalize ==
    /\ csv_buffer.state = "open"
    /\ Len(csv_buffer.calls) < MaxCalls
    /\ \E out \in WriteOutcomes(Len(csv_buffer.buffer)) :
         LET after == finalize(csv_buffer, out)
         IN  csv_buffer' =
               Called(after, "finalize", <<>>, FlushResult(csv_buffer, out),
                      Len(after.file) - Len(csv_buffer.file))
    /\ BufferOnly

NextBuffer == BufNew \/ BufWriteLine \/ BufFlush \/ BufFinalize

InitBuffer ==
    /\ csv_buffer = [BufferOff EXCEPT !.state = "new"]
    /\ callers = CallersOff
    /\ calibration = CalOff
    /\ cfg = [csv_file |-> TRUE, min_trades |-> 0, max_samples |-> 2,
              show_realtime |-> FALSE,
              overflow_checks |-> FALSE]
    /\ csv_writer = <<>>
    /\ stats = NewStats
    /\ recent_latencies = <<>>
    /\ window_lock = "free"
    /\ main = [MainIdle EXCEPT !.pc = "off"]
    /\ stream = 0
    /\ final_stats = ZeroReport
    /\ display = DisplayIdle
    /\ chan = <<>>
    /\ producer = ProducerIdle
    /\ writer = WriterIdle
    /\ obs = ObsInit

SpecBuffer == InitBuffer /\ [][NextBuffer]_vars

\* the calls that flush: flush and finalize
Flushes == {"flush", "finalize"}

\* the lines given to write_line by the first n calls, in call order
RECURSIVE LinesWritten(_, _)
LinesWritten(calls, n) ==
    IF n = 0 THEN <<>>
    ELSE IF calls[n].op = "write_line"
         THEN Append(LinesWritten(calls, n - 1), calls[n].line)
         ELSE LinesWritten(calls, n - 1)

\* C15: when the last call was a flush or finalize that returned Ok, the
\* buffer is empty and the file holds, after the header, every line given
\* to write_line so far, once each and in call order; and a flush or
\* finalize that directly follows one that returned Ok writes nothing.
C15_FlushContract ==
    LET calls == csv_buffer.calls
        n == Len(calls)
    IN  /\ (n > 0 /\ calls[n].op \in Flushes /\ calls[n].result = "ok") =>
             /\ csv_buffer.buffer = <<>>
             /\ csv_buffer.file = <<Header>> \o LinesWritten(calls, n)
        /\ \A i \in 1..(n - 1) :
             (/\ calls[i].op \in Flushes /\ calls[i].result = "ok"
              /\ calls[i + 1].op \in Flushes) => calls[i + 1].wrote = 0

\* ------------------------------------------------------------------------
\* the three sinks side by side: a run uses one of them
\* ------------------------------------------------------------------------

InitSinks == Init \/ InitWriter \/ InitBuffer

NextSinks == Next \/ NextWriter \/ NextBuffer

SpecSinks == InitSinks /\ [][NextSinks]_vars

\* a line written whole, with its five fields
WholeLine(line) == Len(line) = 5

\* the file without the cut line a failed write has left at its end
WholeLines(file) ==
    IF file # <<>> /\ ~WholeLine(file[Len(file)])
    THEN SubSeq(file, 1, Len(file) - 1) ELSE file

\* the files of the sinks, each without the line its last write may have
\* left unfinished
SinkFiles ==
    {WholeLines(csv_writer), WholeLines(writer.file),
     WholeLines(csv_buffer.file)}

\* the record line of a trade: identifier, event time, arrival time, latency
\* with two decimals, origin label
ExpectedLine(trade_id, ts, recv_ts, latency_ms, machine_id) ==
    <<trade_id, ts, recv_ts, [whole |-> latency_ms, cents |-> 0], machine_id>>

ExpectedRecordLine(r) ==
    ExpectedLine(r.trade_id, r.ts, r.recv_ts, r.latency_ms, r.machine_id)

\* C14: in the file of every sink (the file main writes, the file of
\* csv_writer_thread, the file of a CsvBuffer), after any writes and
\* flushes, the first line is the header trade_id,ts,recv_ts,latency_ms,
\* machine_id, no later line is the header, and every record line carries
\* identifier, event time, arrival time, latency, origin label in that
\* order: the line main has just written is that of its trade, line i of
\* the writer thread is that of the i-th record sent, and the lines of a
\* CsvBuffer are those of trades handed to write_line.  (What a failed
\* write left unfinished at the very end of a file is no line yet; a cut
\* line with more written after it is a line that carries other fields.)
C14_HeaderOnceFieldOrder ==
    /\ \A f \in SinkFiles :
         f # <<>> => /\ f[1] = <<"trade_id", "ts", "recv_ts", "latency_ms",
                                 "machine_id">>
                     /\ \A i \in 2..Len(f) : WholeLine(f[i]) /\ f[i] # f[1]
    /\ (main.pc = "check_min" /\ cfg.csv_file) =>
         csv_writer[Len(csv_writer)] =
            ExpectedLine(main.trade.id, main.trade.ts, main.recv_ts,
                         main.latency_ms, MachineId)
    /\ \A i \in 2..Len(WholeLines(writer.file)) :
         writer.file[i] =
            ExpectedRecordLine(TradeRecord(i - 1, producer.machine_id))
    /\ \A i \in 2..Len(WholeLines(csv_buffer.file)) :
         \E r \in BufferRecords : csv_buffer.file[i] = ExpectedRecordLine(r)

\* C17: when the file cannot be opened the run stops there: main unwinds
\* with nothing received, measured, counted or written, and whenever a
\* payload has been received with CSV_FILE set the file is open and begins
\* with the header; CsvBuffer::new that fails yields no CsvBuffer, so no
\* call is ever made on one whose file is not open; and no record is handed
\* to a csv_writer_thread whose file did not open, where it would be lost.
C17_OpenFailureFailsFast ==
    /\ (main.pc = "panicked" /\ main.panic = "open") =>
         /\ stream = 0
         /\ stats = NewStats
         /\ recent_latencies = <<>>
         /\ obs.submitted = <<>>
         /\ WholeLines(csv_writer) = <<>>
    /\ (cfg.csv_file /\ stream > 0) =>
         csv_writer # <<>> /\ csv_writer[1] = Header
    /\ csv_buffer.state = "failed" =>
         csv_buffer.calls = <<>> /\ csv_buffer.buffer = <<>>
    /\ csv_buffer.calls # <<>> => csv_buffer.file # <<>>
    /\ (writer.pc = "panicked" /\ writer.panic = "open") =>
         /\ WholeLines(writer.file) = <<>>
         /\ producer.sent = 0

\* ------------------------------------------------------------------------
\* clock calibration at startup.  No source file of the meter holds a
\* calibrator, so its rounds and its choice are written from the description
\* of the ClockCalibrator (sampled round trips against a time authority);
\* main is the code of main.rs, started once calibration is done.
\* ------------------------------------------------------------------------

\* the cap on calibration rounds
MaxRounds == 3

\* what a round can come to: a failed request, or the local send time t1
\* and receive time t3 (microseconds) with the time the authority reported
\* (milliseconds)
NoReply == [ok |-> FALSE, t1 |-> 0, t3 |-> 0, authority_ms |-> 0]
Reply(t1, t3, authority_ms) ==
    [ok |-> TRUE, t1 |-> t1, t3 |-> t3, authority_ms |-> authority_ms]

CalReplies ==
    {NoReply, Reply(100000, 104000, 99), Reply(200000, 210000, 209),
     Reply(300000, 304000, 302)}

\* the sample of a round: the authority's clock at the midpoint of the
\* round trip is estimated as t1 + (t3 - t1) / 2, and the offset is that
\* estimate minus the reported time
CalibrationSample(r) ==
    [offset_us |-> (r.t1 + (r.t3 - r.t1) \div 2) - r.authority_ms * 1000,
     round_trip_us |-> r.t3 - r.t1]

\* sort by round trip ascending and take the first: the earliest of the
\* samples with the least round trip; zero without samples
BestOffset(samples) ==
    IF samples = <<>> THEN 0
    ELSE LET best == CHOOSE i \in 1..Len(samples) :
                        \A j \in 1..Len(samples) :
                           \/ samples[i].round_trip_us < samples[j].round_trip_us
                           \/ /\ samples[i].round_trip_us = samples[j].round_trip_us
                              /\ i <= j
         IN  samples[best].offset_us

CalOnly ==
    UNCHANGED <<cfg, csv_buffer, callers, stats, recent_latencies, window_lock, main,
                stream, csv_writer, final_stats, display, chan, producer,
                writer, obs>>

\* one round: a failed or malformed reply is skipped
CalRound ==
    /\ calibration.pc = "sampling"
    /\ calibration.rounds < MaxRounds
    /\ \E r \in CalReplies :
         calibration' =
           [calibration EXCEPT
              !.rounds = @ + 1,
              !.samples = IF r.ok THEN Append(@, CalibrationSample(r)) ELSE @]
    /\ CalOnly

\* after the rounds: the offset of the best sample, or zero and a degraded
\* calibration when no round succeeded
CalFinish ==
    /\ calibration.pc = "sampling"
    /\ calibration' =
         [calibration EXCEPT
            !.pc = "done",
            !.offset_us = BestOffset(calibration.samples),
            !.degraded = calibration.samples = <<>>]
    /\ CalOnly

CalNext == CalRound \/ CalFinish

\* the stream of the calibrated run: one trade, arriving 42 ms after its
\* event time
MaxItemsCal == 1

ItemsCal == {TextItem(TradePayload(<<"1">>), 42)}

ConfigsCal ==
    {Built([csv_file |-> TRUE, min_trades |-> 0, max_samples |-> 2], b) :
       b \in {FALSE}}

InitCal ==
    /\ \E c \in ConfigsCal :
         cfg = [csv_file |-> c.csv_file, min_trades |-> c.min_trades,
                max_samples |-> c.max_samples, show_realtime |-> FALSE,
              overflow_checks |-> FALSE]
    /\ calibration = [CalOff EXCEPT !.pc = "sampling"]
    /\ csv_writer = <<>>
    /\ csv_buffer = BufferOff
    /\ callers = CallersOff
    /\ stats = NewStats
    /\ recent_latencies = <<>>
    /\ window_lock = "free"
    /\ main = MainStart
    /\ stream = 0
    /\ final_stats = ZeroReport
    /\ display = DisplayIdle
    /\ chan = <<>>
    /\ producer = ProducerIdle
    /\ writer = WriterIdle
    /\ obs = ObsInit

\* calibration runs to its end before main goes on
NextCal ==
    \/ CalNext
    \/ calibration.pc = "done" /\ MainNext(ItemsCal, MaxItemsCal)

SpecCal == InitCal /\ [][NextCal]_vars

\* C19: once calibration is done its offset is that of a sample whose
\* round trip is least among the samples taken, or zero with the degraded
\* condition raised when no round succeeded; no payload is received before
\* calibration is done; and every latency handed to update is arrival
\* time - event time - offset (microseconds).
C19_CalibratedLatency ==
    /\ calibration.pc = "done" =>
         LET samples == calibration.samples
         IN  IF samples = <<>>
             THEN calibration.offset_us = 0 /\ calibration.degraded
             ELSE /\ ~calibration.degraded
                  /\ \E i \in 1..Len(samples) :
                       /\ samples[i].offset_us = calibration.offset_us
                       /\ \A j \in 1..Len(samples) :
                            samples[i].round_trip_us <= samples[j].round_trip_us
    /\ stream > 0 => calibration.pc = "done"
    /\ main.pc = "upd_count" =>
         main.latency_ms * 1000 =
            SignedDiff(main.recv_ts, main.trade.ts) * 1000
               - calibration.offset_us

\* ------------------------------------------------------------------------
\* get on windows of every length
\* ------------------------------------------------------------------------

\* the longest window a snapshot is taken of
MaxWindow == 40

\* n submitted latencies (ms): pairwise different, in no order
Ramp(n) == [i \in 1..n |-> ((i * 37) % 127) + 1]

\* n submitted latencies that are all the same
Flat(n) == [i \in 1..n |-> 42]

\* the counters after update(1, q[1]), ..., update(n, q[n]) of positive q
StatsAfter(q) ==
    LET us == {q[i] * 1000 : i \in 1..Len(q)}
    IN  [count |-> Len(q),
         total_latency |-> BigOfNat(SumSeq(q) * 1000),
         min |-> BigOfNat(CHOOSE x \in us : \A y \in us : x <= y),
         max |-> BigOfNat(CHOOSE x \in us : \A y \in us : x >= y),
         last_trade_id |-> BigOfNat(Len(q)),
         gaps_detected |-> BigZero, out_of_order |-> 0]

\* the loop has been left after n updates with a capacity of 0, of n - 1 or
\* of MaxWindow, and main is about to take its closing snapshot
InitGet ==
    /\ \E n \in 1..MaxWindow, capacity \in 0..MaxWindow :
       \E q \in {Ramp(n), Flat(n)} :
         /\ capacity \in {0, n - 1, MaxWindow}
         /\ cfg = [csv_file |-> FALSE, min_trades |-> 0,
                   max_samples |-> capacity, show_realtime |-> FALSE,
              overflow_checks |-> FALSE]
         /\ stats = StatsAfter(q)
         /\ recent_latencies = LastN(q, capacity)
         /\ obs = [ObsInit EXCEPT !.submitted = q,
                                  !.prev_id = BigOfNat(n),
                                  !.before_id = BigOfNat(n - 1),
                                  !.scenario = 0 - 1]
    /\ main = [MainIdle EXCEPT !.pc = "final"]
    /\ csv_writer = <<>>
    /\ csv_buffer = BufferOff
    /\ callers = CallersOff
    /\ calibration = CalOff
    /\ window_lock = "free"
    /\ stream = 0
    /\ final_stats = ZeroReport
    /\ display = DisplayIdle
    /\ chan = <<>>
    /\ producer = ProducerIdle
    /\ writer = WriterIdle

NextGet == FinalStats

SpecGet == InitGet /\ [][NextGet]_vars

\* the entries of a window
Entries(window) == {window[i] : i \in 1..Len(window)}

\* C22: for a window of length L >= 1 the three indices of the snapshot
\* lie in 0..L-1, so the percentiles it reports are entries of the window,
\* in rising order; for an empty window the percentiles and the jitter are
\* reported as 0.
C22_PercentileIndices ==
    LET L == Len(recent_latencies)
    IN  /\ L >= 1 =>
             /\ {P50Index(L), P95Index(L), P99Index(L)} \subseteq 0..(L - 1)
             /\ main.pc = "exit" =>
                  /\ {final_stats.p50, final_stats.p95, final_stats.p99}
                        \subseteq Entries(recent_latencies)
                  /\ final_stats.p50 <= final_stats.p95
                  /\ final_stats.p95 <= final_stats.p99
        /\ (L = 0 /\ main.pc = "exit") =>
             /\ final_stats.count = stats.count
             /\ final_stats.p50 = 0 /\ final_stats.p95 = 0
             /\ final_stats.p99 = 0 /\ final_stats.jitter_sq = 0

\* a snapshot of a window of 20 different entries has been taken: its p95
\* and p99 are the entry at index 19, the largest, its p50 the one at
\* index 10
C22_Witness ==
    /\ main.pc = "exit"
    /\ Len(recent_latencies) = 20
    /\ Cardinality(Entries(recent_latencies)) = 20
    /\ final_stats.p95 = final_stats.p99
    /\ \A x \in Entries(recent_latencies) : x <= final_stats.p95
    /\ Cardinality({x \in Entries(recent_latencies) : x < final_stats.p50}) = 10

\* ------------------------------------------------------------------------
\* sequence validation over longer streams
\* ------------------------------------------------------------------------

\* the most items the stream delivers here
MaxItemsSeq == 5

\* trades 1..5 and the trade with the highest id a u64 holds, each 42 ms
\* after its event time, in any order, repeated or not
ItemsSeq ==
    {TextItem(TradePayload(<<"1">>), 42), TextItem(TradePayload(<<"2">>), 42),
     TextItem(TradePayload(<<"3">>), 42), TextItem(TradePayload(<<"4">>), 42),
     TextItem(TradePayload(<<"5">>), 42),
     TextItem(TradePayload(U64MaxDigits), 42)}

ConfigsSeq ==
    {Built([csv_file |-> FALSE, min_trades |-> 0, max_samples |-> 1], b) :
       b \in BOOLEAN}

InitSeq == InitRun(FALSE, ConfigsSeq)

NextSeq == MainNext(ItemsSeq, MaxItemsSeq)

SpecSeq == InitSeq /\ [][NextSeq]_vars

\* C23: each id is compared with the id of the update just before it and
\* with nothing else, and every update, whatever its id, leaves its id in
\* last_trade_id: between updates last_trade_id is the id of the last call,
\* lower than an earlier one when that call came late (an update that
\* panics in the validation has stored nothing, and leaves the id of the
\* call before it); ids 1, 2, 4, 3, 5 end with 2 gaps and 1 out of order.
C23_LastIdIsLastCall ==
    /\ main.pc \in {"seq_check", "seq_store"} => main.last_id = obs.before_id
    /\ (AtBoundary /\ obs.submitted # <<>>) =>
         stats.last_trade_id = obs.prev_id
    /\ (main.pc = "panicked" /\ main.panic = "last_id") =>
         stats.last_trade_id = obs.before_id
    /\ (AtBoundary /\ obs.scenario = 5) =>
         /\ stats.gaps_detected = BigOfNat(2)
         /\ stats.out_of_order = 1
         /\ obs.skipped = BigOfNat(2)

\* ids 1, 2, 4, 3, 5 have been submitted to a fresh LatencyStats
C23_Witness == AtBoundary /\ obs.scenario = 5 /\ stats.count = 5

\* ------------------------------------------------------------------------
\* a CsvBuffer shared by two threads: one calls write_line, the other flush;
\* one action per step that takes a lock or touches the Vec or the file
\* ------------------------------------------------------------------------

\* the most calls of write_line and of flush
MaxWrites == 3
MaxFlushes == 3

SharedOnly ==
    UNCHANGED <<cfg, calibration, stats, recent_latencies, window_lock, main,
                stream, csv_writer, final_stats, display, chan, producer,
                writer, obs>>

\* the record of the next write_line: trade ids go up from 1
NextRecord == TradeRecord(callers.writer.done + 1, ShortLabel)

\* write_line: let line = format!(...)
WlFormat ==
    /\ callers.writer.pc = "idle"
    /\ callers.writer.done < MaxWrites
    /\ callers' = [callers EXCEPT !.writer.pc = "lock",
                                  !.writer.line = FormatRecord(NextRecord)]
    /\ UNCHANGED csv_buffer
    /\ SharedOnly

\* write_line: self.buffer.lock().unwrap()
WlLock ==
    /\ callers.writer.pc = "lock"
    /\ csv_buffer.buffer_lock = "free"
    /\ csv_buffer' = [csv_buffer EXCEPT !.buffer_lock = "writer"]
    /\ callers' = [callers EXCEPT !.writer.pc = "extend"]
    /\ SharedOnly

\* write_line: buffer.extend_from_slice(line.as_bytes()), and the guard
\* dropped on return
WlExtend ==
    /\ callers.writer.pc = "extend"
    /\ LET r == NextRecord
           after == write_line(csv_buffer, r.trade_id, r.ts, r.recv_ts,
                               r.latency_ms, r.machine_id)
       IN  csv_buffer' =
             Called([after EXCEPT !.buffer_lock = "free"], "write_line",
                    callers.writer.line, "ok", 0)
    /\ callers' = [callers EXCEPT !.writer.pc = "idle",
                                  !.writer.done = @ + 1,
                                  !.writer.line = <<>>]
    /\ SharedOnly

\* flush: self.buffer.lock().unwrap()
FlLock ==
    /\ callers.flusher.pc = "idle"
    /\ callers.flusher.done < MaxFlushes
    /\ csv_buffer.buffer_lock = "free"
    /\ csv_buffer' = [csv_buffer EXCEPT !.buffer_lock = "flusher"]
    /\ callers' = [callers EXCEPT !.flusher.pc = "check"]
    /\ SharedOnly

\* flush: if buffer.is_empty() { return Ok(()) }
FlCheck ==
    /\ callers.flusher.pc = "check"
    /\ IF csv_buffer.buffer = <<>>
       THEN /\ csv_buffer' =
                 Called([csv_buffer EXCEPT !.buffer_lock = "free"], "flush",
                        <<>>, "ok", 0)
            /\ callers' = [callers EXCEPT !.flusher.pc = "idle",
                                          !.flusher.done = @ + 1]
       ELSE /\ callers' = [callers EXCEPT !.flusher.pc = "lock_file"]
            /\ UNCHANGED csv_buffer
    /\ SharedOnly

\* flush: self.file.lock().unwrap()
FlLockFile ==
    /\ callers.flusher.pc = "lock_file"
    /\ csv_buffer.file_lock = "free"
    /\ csv_buffer' = [csv_buffer EXCEPT !.file_lock = "flusher"]
    /\ callers' = [callers EXCEPT !.flusher.pc = "write"]
    /\ SharedOnly

\* flush: file.write_all(&buffer)? and file.flush()?
FlWrite ==
    /\ callers.flusher.pc = "write"
    /\ \E out \in WriteOutcomes(Len(csv_buffer.buffer)) :
         /\ csv_buffer' =
              [csv_buffer EXCEPT !.file = flush(csv_buffer, out).file]
         /\ callers' =
              [callers EXCEPT !.flusher.out = out,
                              !.flusher.wrote =
                                 Len(Written(csv_buffer.buffer, out)),
                              !.flusher.pc = IF out.io = "ok" THEN "clear"
                                             ELSE "return"]
    /\ SharedOnly

\* flush: buffer.clear()
FlClear ==
    /\ callers.flusher.pc = "clear"
    /\ csv_buffer' =
         [csv_buffer EXCEPT
            !.buffer = flush(csv_buffer, callers.flusher.out).buffer]
    /\ callers' = [callers EXCEPT !.flusher.pc = "return"]
    /\ SharedOnly

\* flush returns: both guards are dropped
FlReturn ==
    /\ callers.flusher.pc = "return"
    /\ csv_buffer' =
         Called([csv_buffer EXCEPT !.file_lock = "free",
                                   !.buffer_lock = "free"],
                "flush", <<>>, callers.flusher.out.io, callers.flusher.wrote)
    /\ callers' = [callers EXCEPT !.flusher.pc = "idle",
                                  !.flusher.done = @ + 1,
                                  !.flusher.out = NoWrite,
                                  !.flusher.wrote = 0]
    /\ SharedOnly

NextShared ==
    \/ WlFormat
    \/ WlLock
    \/ WlExtend
    \/ FlLock
    \/ FlCheck
    \/ FlLockFile
    \/ FlWrite
    \/ FlClear
    \/ FlReturn

\* CsvBuffer::new has returned Ok and the two threads are about to start
InitShared ==
    /\ csv_buffer = new(BufferOff, "ok", 0)
    /\ callers = [CallersOff EXCEPT !.writer.pc = "idle",
                                    !.flusher.pc = "idle"]
    /\ calibration = CalOff
    /\ cfg = [csv_file |-> TRUE, min_trades |-> 0, max_samples |-> 2,
              show_realtime |-> FALSE,
              overflow_checks |-> FALSE]
    /\ csv_writer = <<>>
    /\ stats = NewStats
    /\ recent_latencies = <<>>
    /\ window_lock = "free"
    /\ main = [MainIdle EXCEPT !.pc = "off"]
    /\ stream = 0
    /\ final_stats = ZeroReport
    /\ display = DisplayIdle
    /\ chan = <<>>
    /\ producer = ProducerIdle
    /\ writer = WriterIdle
    /\ obs = ObsInit

SpecShared == InitShared /\ [][NextShared]_vars

\* how often a line occurs in the file, after its header
Occurrences(file, line) == Cardinality({i \in 2..Len(file) : file[i] = line})

\* both threads have made all their calls
AllCallsMade ==
    /\ callers.writer.pc = "idle" /\ callers.writer.done = MaxWrites
    /\ callers.flusher.pc = "idle" /\ callers.flusher.done = MaxFlushes

\* C24: under every interleaving of write_line calls on one thread with
\* flush calls on another, every line given to write_line before a flush
\* that returned Ok is in the file exactly once, and a line that has left
\* the buffer is in the file; the file lock is only taken under the buffer
\* lock, and some thread can always take a step until both have made all
\* their calls.
C24_OnceAndNoDeadlock ==
    LET calls == csv_buffer.calls
        lines == LinesWritten(calls, Len(calls))
    IN  /\ \A j \in 1..Len(calls) :
             (calls[j].op = "flush" /\ calls[j].result = "ok") =>
                \A line \in Entries(LinesWritten(calls, j)) :
                   Occurrences(csv_buffer.file, line) = 1
        /\ \A line \in Entries(lines) :
             line \notin Entries(csv_buffer.buffer) =>
                Occurrences(csv_buffer.file, line) >= 1
        /\ csv_buffer.file_lock # "free" =>
             csv_buffer.buffer_lock = csv_buffer.file_lock
        /\ ~AllCallsMade => ENABLED NextShared

====
